---- MODULE Spec2Model ----
(***************************************************************************)
(* The Dialogue Manager of the chatbot backend: process(message) and the   *)
(* slot-filling state machine, the State record and the Mongo memory       *)
(* saver, as a state machine.                                              *)
(*                                                                         *)
(* Python values: a str is a sequence of one-character strings, a list is  *)
(* a sequence, a dict is a function on its keys ({} is <<>>).  TLC compares *)
(* only values of one kind, so None is written per kind: None where an     *)
(* object or a dict with field names is expected, NoneStr where a str is,  *)
(* NoneList where a list of dicts is.  A confidence c is the integer       *)
(* 100 * c.                                                                *)
(***************************************************************************)
EXTENDS Integers, Sequences, FiniteSets, TLC

VARIABLES
    store,            \* MemorySaverMongo.collection: the inserted documents, in $natural order
    nlu_pipeline,     \* DialogueManager.nlu_pipeline: Pipeline or None
    dm_intents,       \* DialogueManager.intents: the IntentModel objects by intent_id
    um_outcome,       \* how the last update_model call ended, "" before the first
    fb,               \* FacebookReceiver.process_webhook_event: payload, loop position, log
    clock,            \* datetime.now(): the number of process calls started so far
    pc,               \* per process call: where the coroutine is
    p_message,        \* per process call: the argument `message`
    p_loaded,         \* per process call: what memory_saver.get / init_state returned
    p_state,          \* per process call: the local `current_state`
    p_resolved,       \* per process call: what _get_intent_id_and_confidence returned
    p_error,          \* per process call: the exception process raised
    p_steps           \* per process call: the collaborator calls made, in order

vars == <<store, nlu_pipeline, dm_intents, um_outcome, fb, clock, pc, p_message, p_loaded, p_state,
          p_resolved, p_error, p_steps>>

-----------------------------------------------------------------------------
(* Bounds *)

MaxCalls == 2         \* process calls started in one behaviour
MaxLen == 3           \* length of the texts of the resolution check
MaxRuns == 3          \* process calls started in one behaviour of the repeated message
MaxText == 7          \* length of the response templates of the split check

-----------------------------------------------------------------------------
(* Python values *)

None == [None |-> TRUE]
NoneStr == <<"None">>
NoneList == <<None>>
EmptyDict == <<>>
Pipeline == [Pipeline |-> TRUE]

\* str.startswith(prefix)
startswith(s, prefix) ==
    /\ Len(s) >= Len(prefix)
    /\ SubSeq(s, 1, Len(prefix)) = prefix

\* index of the first occurrence of sep in s at or after position i, 0 if none
RECURSIVE find(_, _, _)
find(s, sep, i) ==
    IF i + Len(sep) - 1 > Len(s) THEN 0
    ELSE IF SubSeq(s, i, i + Len(sep) - 1) = sep THEN i
    ELSE find(s, sep, i + 1)

\* str.split(sep), sep not empty: the pieces between the occurrences of sep,
\* scanned left to right without overlap
RECURSIVE split(_, _)
split(s, sep) ==
    LET i == find(s, sep, 1)
    IN  IF i = 0 THEN <<s>>
        ELSE <<SubSeq(s, 1, i - 1)>> \o split(SubSeq(s, i + Len(sep), Len(s)), sep)

\* dict[key] = value
DictSet(d, key, value) == (key :> value) @@ d

\* dict.update(other)
DictUpdate(d, other) == other @@ d

\* truth value of an object, a dict or None; of a str or None; of a list or None
Truthy(v) == v # None /\ v # <<>>
TruthyStr(v) == v # NoneStr /\ v # <<>>
TruthyList(v) == v # NoneList /\ v # <<>>

-----------------------------------------------------------------------------
(* Strings of the model *)

SLASH == <<"/">>
DELIM == <<"#", "#", "#">>
cancel == <<"c", "a", "n", "c", "e", "l">>
free_text == <<"f", "r", "e", "e", "_", "t", "e", "x", "t">>
EmptyStr == <<>>
\* "Service is not available. Please try again later."
SERVICE_UNAVAILABLE ==
    <<"S", "e", "r", "v", "i", "c", "e", " ", "i", "s", " ", "n", "o", "t", " ",
    "a", "v", "a", "i", "l", "a", "b", "l", "e", ".", " ", "P", "l", "e", "a",
    "s", "e", " ", "t", "r", "y", " ", "a", "g", "a", "i", "n", " ", "l", "a",
    "t", "e", "r", ".">>

book_flight == <<"b", "o", "o", "k">>
report == <<"r", "e", "p", "o", "r", "t">>
fallback == <<"f", "a", "l", "l", "b", "a", "c", "k">>
weather == <<"w", "e", "a">>
unknown == <<"n", "o", "p", "e">>

origin == <<"o", "r", "i", "g">>
destination == <<"d", "e", "s", "t">>
place == <<"p", "l", "a", "c", "e">>
topic == <<"t", "o", "p", "i", "c">>
comment == <<"c", "o", "m", "m">>
note == <<"n", "o", "t", "e">>
city == <<"c", "i", "t", "y">>

Boston == <<"B", "o", "s">>
Denver == <<"D", "e", "n">>
billing == <<"b", "i", "l", "l">>

-----------------------------------------------------------------------------
(* The intent catalog and the configuration given at construction *)

ParameterModel(name, type, required, prompt) ==
    [name |-> name, type |-> type, required |-> required, prompt |-> prompt]

IntentModel(intent_id, api_trigger, api_details, speech_response, parameters) ==
    [intent_id |-> intent_id, api_trigger |-> api_trigger, api_details |-> api_details,
     speech_response |-> speech_response, parameters |-> parameters]

ApiDetails == [url |-> <<"u">>, request_type |-> <<"G", "E", "T">>, is_json |-> FALSE]

IntentList == <<
    IntentModel(book_flight, FALSE, None, <<"B", "o", "o", "k", "e", "d">>,
        << ParameterModel(origin, city, TRUE, <<"F", "r", "o", "m", "?">>),
           ParameterModel(destination, city, TRUE, <<"T", "o", "?", "#", "#", "#", "W", "?">>) >>),
    IntentModel(report, FALSE, None, <<"T", "h", "x">>,
        << ParameterModel(topic, topic, TRUE, <<"A", "b", "o", "u", "t", "?">>),
           ParameterModel(comment, free_text, TRUE, <<"S", "a", "y">>),
           ParameterModel(note, free_text, FALSE, <<"N", "o", "t", "e", "?">>) >>),
    IntentModel(weather, TRUE, ApiDetails, <<"S", "u", "n", "#", "#", "#", "W", "i", "n", "d">>,
        << ParameterModel(place, city, TRUE, <<"W", "h", "e", "r", "e", "?">>) >>),
    IntentModel(cancel, FALSE, None, <<"O", "k">>, <<>>),
    IntentModel(fallback, FALSE, None, <<"S", "o", "r", "r", "y">>, <<>>) >>

\* DialogueManager.__init__: self.intents = {intent.intent_id: intent for intent in intents}
intents ==
    [id \in {IntentList[i].intent_id : i \in 1..Len(IntentList)} |->
        IntentList[CHOOSE i \in 1..Len(IntentList) :
            /\ IntentList[i].intent_id = id
            /\ \A j \in (i + 1)..Len(IntentList) : IntentList[j].intent_id # id]]

fallback_intent_id == fallback
confidence_threshold == 50
CONFIDENCE_ONE == 100

-----------------------------------------------------------------------------
(* State (app/bot/memory/models.py) *)

\* dict.get(key, default)
DictGet(d, key, default) == IF key \in DOMAIN d THEN d[key] ELSE default

\* the keyword argument `key` or default, where a key that is absent is the
\* argument None, and `none` is the None of the argument's kind
ArgOr(kwargs, key, none, default) ==
    IF key \in DOMAIN kwargs /\ kwargs[key] # none /\ kwargs[key] # <<>>
    THEN kwargs[key] ELSE default

\* State.__init__
State(thread_id, kwargs, now) ==
    [thread_id |-> thread_id,
     user_message |-> DictGet(kwargs, "user_message", None),
     bot_message |-> DictGet(kwargs, "bot_message", NoneList),
     nlu |-> EmptyDict,
     context |-> ArgOr(kwargs, "context", None, EmptyDict),
     intent |-> ArgOr(kwargs, "intent", None, EmptyDict),
     parameters |-> ArgOr(kwargs, "parameters", NoneList, <<>>),
     extracted_parameters |-> ArgOr(kwargs, "extracted_parameters", <<>>, EmptyDict),
     missing_parameters |-> ArgOr(kwargs, "missing_parameters", <<NoneStr>>, <<>>),
     complete |-> DictGet(kwargs, "complete", FALSE),
     current_node |-> DictGet(kwargs, "current_node", EmptyStr),
     date |-> ArgOr(kwargs, "date", None, now)]

\* datetime.now(timezone.utc) when the clock shows t
datetime(t) == [utc |-> t]

\* datetime.isoformat / datetime.fromisoformat
isoformat(date) == [iso |-> date]
fromisoformat(text) == IF DOMAIN text = {"iso"} THEN text.iso ELSE None

\* State.to_dict
to_dict(self) ==
    [thread_id |-> self.thread_id,
     user_message |-> self.user_message,
     bot_message |-> self.bot_message,
     nlu |-> self.nlu,
     context |-> self.context,
     intent |-> self.intent,
     parameters |-> self.parameters,
     extracted_parameters |-> self.extracted_parameters,
     missing_parameters |-> self.missing_parameters,
     complete |-> self.complete,
     current_node |-> self.current_node,
     date |-> isoformat(self.date)]

\* State.from_dict: the keys of state_dict it reads become keyword arguments
from_dict(state_dict, now) ==
    LET read == {"user_message", "bot_message", "context", "intent", "parameters",
                 "extracted_parameters", "missing_parameters", "complete",
                 "current_node", "date"}
        kwargs == [k \in read \cap DOMAIN state_dict |->
                      IF k = "date" THEN fromisoformat(state_dict[k]) ELSE state_dict[k]]
    IN  State(state_dict.thread_id, kwargs, now)

\* State.update without the reset of a complete state
update_no_reset(self, user_message, now) ==
    [self EXCEPT
        !.user_message = user_message,
        !.date = now,
        !.context = IF user_message.context # None
                     THEN DictUpdate(self.context, user_message.context)
                     ELSE self.context]

\* State.update with a reset that leaves extracted_parameters
update_keeps_extracted(self, user_message, now) ==
    LET merged == update_no_reset(self, user_message, now)
    IN  IF self.complete
        THEN [merged EXCEPT
                !.bot_message = <<>>,
                !.intent = None,
                !.parameters = <<>>,
                !.missing_parameters = <<>>,
                !.complete = FALSE,
                !.current_node = NoneStr]
        ELSE merged

\* State.update with the message's context taken in place of the state's
update_replaces_context(self, user_message, now) ==
    LET merged == [self EXCEPT
                      !.user_message = user_message,
                      !.date = now,
                      !.context = IF user_message.context # None
                                   THEN user_message.context
                                   ELSE self.context]
    IN  IF self.complete
        THEN [merged EXCEPT
                !.bot_message = <<>>,
                !.intent = None,
                !.parameters = <<>>,
                !.extracted_parameters = EmptyDict,
                !.missing_parameters = <<>>,
                !.complete = FALSE,
                !.current_node = NoneStr]
        ELSE merged


\* State.update with the reset done whether or not the state is complete
update_always_reset(self, user_message, now) ==
    [update_no_reset(self, user_message, now) EXCEPT
        !.bot_message = <<>>,
        !.intent = None,
        !.parameters = <<>>,
        !.extracted_parameters = EmptyDict,
        !.missing_parameters = <<>>,
        !.complete = FALSE,
        !.current_node = NoneStr]

\* State.update
update(self, user_message, now) ==
    LET merged == [self EXCEPT
            !.user_message = user_message,
            !.date = now,
            !.context = IF user_message.context # None
                         THEN DictUpdate(self.context, user_message.context)
                         ELSE self.context]
    IN  IF self.complete
        THEN [merged EXCEPT
                !.bot_message = <<>>,
                !.intent = None,
                !.parameters = <<>>,
                !.extracted_parameters = EmptyDict,
                !.missing_parameters = <<>>,
                !.complete = FALSE,
                !.current_node = NoneStr]
        ELSE merged

\* State.get_active_intent_id
get_active_intent_id(self) ==
    IF Truthy(self.intent) THEN DictGet(self.intent, "id", NoneStr) ELSE NoneStr

\* UserMessage
UserMessage(thread_id, text, context) ==
    [thread_id |-> thread_id, text |-> text, context |-> context]

-----------------------------------------------------------------------------
(* MemorySaverMongo (app/bot/memory/memory_saver_mongo.py) *)

\* the fields find_one's projection removes
Projection == {"_id", "nlu", "date", "user_message", "bot_message"}

Project(doc) == [k \in (DOMAIN doc) \ Projection |-> doc[k]]

\* a save that keeps the slots of the thread's latest document
save_merged(collection, thread_id, state) ==
    LET hits == {i \in 1..Len(collection) : collection[i].thread_id = state.thread_id}
        last == CHOOSE i \in hits : \A j \in hits : j <= i
        doc == to_dict(state)
    IN  IF hits = {} THEN Append(collection, doc)
        ELSE Append(collection,
                    [doc EXCEPT !.extracted_parameters =
                        @ @@ collection[last].extracted_parameters])

\* collection.insert_one(state.to_dict())
save(collection, thread_id, state) == Append(collection, to_dict(state))

\* a find_one sorted the other way: the oldest document of the thread
find_one_oldest(collection, thread_id) ==
    LET hits == {i \in 1..Len(collection) : collection[i].thread_id = thread_id}
    IN  IF hits = {} THEN None
        ELSE Project(collection[CHOOSE i \in hits : \A j \in hits : i <= j])

\* a find_one without the thread_id filter
find_one_any(collection, thread_id) ==
    IF collection = <<>> THEN None
    ELSE Project(collection[Len(collection)])

\* collection.find_one({"thread_id": thread_id}, projection, sort=[("$natural", -1)])
find_one(collection, thread_id) ==
    LET hits == {i \in 1..Len(collection) : collection[i].thread_id = thread_id}
    IN  IF hits = {} THEN None
        ELSE Project(collection[CHOOSE i \in hits : \A j \in hits : j <= i])

\* MemorySaverMongo.get
get(collection, thread_id, now) ==
    LET result == find_one(collection, thread_id)
    IN  IF Truthy(result) THEN from_dict(result, now) ELSE None

\* MemorySaver.init_state
init_state(thread_id, now) == State(thread_id, EmptyDict, now)

-----------------------------------------------------------------------------
(* DialogueManager (app/bot/dialogue_manager/dialogue_manager.py) *)

\* the resolution without the explicit "/" command
_get_intent_id_and_confidence_nlu(current_state, nlu_result) ==
    LET predicted == nlu_result.intent
    IN  IF predicted.confidence < confidence_threshold
        THEN <<fallback_intent_id, CONFIDENCE_ONE>>
        ELSE <<predicted.intent, predicted.confidence>>

\* the resolution with the threshold itself counted as too low
_get_intent_id_and_confidence_le(current_state, nlu_result) ==
    LET input_text == current_state.user_message.text
    IN  IF startswith(input_text, SLASH)
        THEN <<split(input_text, SLASH)[2], CONFIDENCE_ONE>>
        ELSE LET predicted == nlu_result.intent
             IN  IF predicted.confidence <= confidence_threshold
                 THEN <<fallback_intent_id, CONFIDENCE_ONE>>
                 ELSE <<predicted.intent, predicted.confidence>>

\* DialogueManager._get_intent_id_and_confidence
_get_intent_id_and_confidence(current_state, nlu_result) ==
    LET input_text == current_state.user_message.text
    IN  IF startswith(input_text, SLASH)
        THEN <<split(input_text, SLASH)[2], CONFIDENCE_ONE>>
        ELSE LET predicted == nlu_result.intent
             IN  IF predicted.confidence < confidence_threshold
                 THEN <<fallback_intent_id, CONFIDENCE_ONE>>
                 ELSE <<predicted.intent, predicted.confidence>>

\* DialogueManager._get_intent
_get_intent(intent_id) == DictGet(dm_intents, intent_id, None)

\* a _get_fallback_intent that takes the cancel intent
_get_fallback_intent_cancel == dm_intents[cancel]

\* DialogueManager._get_fallback_intent
_get_fallback_intent == dm_intents[fallback_intent_id]

\* split_sentence that cuts at every '#'
split_sentence_hash(sentence) == split(sentence, <<"#">>)

\* utils.split_sentence
split_sentence(sentence) == split(sentence, DELIM)

\* [{"text": msg} for msg in split_sentence(text)]
Segments(text) ==
    LET parts == split_sentence(text)
    IN  [i \in 1..Len(parts) |-> [text |-> parts[i]]]

\* _handle_missing_parameters without the test of parameter.required
_handle_missing_parameters_any(parameters, current_state) ==
    LET missing == SelectSeq(parameters,
            LAMBDA parameter :
                parameter.name \notin DOMAIN current_state.extracted_parameters)
        names == [i \in 1..Len(missing) |-> missing[i].name]
    IN  IF missing # <<>>
        THEN [current_state EXCEPT
                !.missing_parameters = names,
                !.current_node = missing[1].name,
                !.bot_message = Segments(missing[1].prompt)]
        ELSE [current_state EXCEPT
                !.missing_parameters = names,
                !.current_node = NoneStr,
                !.bot_message = <<>>]

\* _handle_missing_parameters that reports nothing missing at an even date
_handle_missing_parameters_by_date(parameters, current_state) ==
    LET missing == SelectSeq(parameters,
            LAMBDA parameter :
                /\ current_state.date.utc % 2 = 1
                /\ parameter.required
                /\ parameter.name \notin DOMAIN current_state.extracted_parameters)
        names == [i \in 1..Len(missing) |-> missing[i].name]
    IN  IF missing # <<>>
        THEN [current_state EXCEPT
                !.missing_parameters = names,
                !.current_node = missing[1].name,
                !.bot_message = Segments(missing[1].prompt)]
        ELSE [current_state EXCEPT
                !.missing_parameters = names,
                !.current_node = NoneStr,
                !.bot_message = <<>>]


\* _handle_missing_parameters that prompts for the last missing parameter
_handle_missing_parameters_last(parameters, current_state) ==
    LET missing == SelectSeq(parameters,
            LAMBDA parameter :
                /\ parameter.required
                /\ parameter.name \notin DOMAIN current_state.extracted_parameters)
        names == [i \in 1..Len(missing) |-> missing[i].name]
    IN  IF missing # <<>>
        THEN [current_state EXCEPT
                !.missing_parameters = names,
                !.current_node = missing[Len(missing)].name,
                !.bot_message = Segments(missing[Len(missing)].prompt)]
        ELSE [current_state EXCEPT
                !.missing_parameters = names,
                !.current_node = NoneStr,
                !.bot_message = <<>>]

\* DialogueManager._handle_missing_parameters
_handle_missing_parameters(parameters, current_state) ==
    LET missing == SelectSeq(parameters,
            LAMBDA parameter :
                /\ parameter.required
                /\ parameter.name \notin DOMAIN current_state.extracted_parameters)
        names == [i \in 1..Len(missing) |-> missing[i].name]
    IN  IF missing # <<>>
        THEN [current_state EXCEPT
                !.missing_parameters = names,
                !.current_node = missing[1].name,
                !.bot_message = Segments(missing[1].prompt)]
        ELSE [current_state EXCEPT
                !.missing_parameters = names,
                !.current_node = NoneStr,
                !.bot_message = <<>>]

\* _process_intent, lines 209-213: the entities grouped by type; a dict holds
\* one value per key, so each list holds one value
EntitiesByType(extracted_entities) ==
    [entity_name \in DOMAIN extracted_entities |-> <<extracted_entities[entity_name]>>]

\* _process_intent, lines 215-221: the snapshot of the intent's parameters
Snapshot(parameters) ==
    [i \in 1..Len(parameters) |->
        [name |-> parameters[i].name,
         type |-> parameters[i].type,
         required |-> parameters[i].required]]

\* the loop of lines 223-229 without the free_text branch
RECURSIVE ExtractLoop_entities(_, _, _, _, _)
ExtractLoop_entities(parameters, i, current_state, extracted_parameters, entities_by_type) ==
    IF i > Len(parameters) THEN extracted_parameters
    ELSE LET param == parameters[i]
         IN  IF /\ param.type \in DOMAIN entities_by_type
                /\ entities_by_type[param.type] # <<>>
             THEN ExtractLoop_entities(parameters, i + 1, current_state,
                      DictSet(extracted_parameters, param.name,
                              Head(entities_by_type[param.type])),
                      [entities_by_type EXCEPT ![param.type] = Tail(@)])
             ELSE ExtractLoop_entities(parameters, i + 1, current_state,
                      extracted_parameters, entities_by_type)


\* the loop of lines 223-229 with a filled parameter keeping its value, so that
\* the entity goes to the next parameter of its type
RECURSIVE ExtractLoop_locked(_, _, _, _, _)
ExtractLoop_locked(parameters, i, current_state, extracted_parameters, entities_by_type) ==
    IF i > Len(parameters) THEN extracted_parameters
    ELSE LET param == parameters[i]
         IN  IF param.type = free_text /\ current_state.current_node = param.name
             THEN ExtractLoop_locked(parameters, i + 1, current_state,
                      DictSet(extracted_parameters, param.name,
                              current_state.user_message.text),
                      entities_by_type)
             ELSE IF /\ param.name \notin DOMAIN extracted_parameters
                     /\ param.type \in DOMAIN entities_by_type
                     /\ entities_by_type[param.type] # <<>>
             THEN ExtractLoop_locked(parameters, i + 1, current_state,
                      DictSet(extracted_parameters, param.name,
                              Head(entities_by_type[param.type])),
                      [entities_by_type EXCEPT ![param.type] = Tail(@)])
             ELSE ExtractLoop_locked(parameters, i + 1, current_state,
                      extracted_parameters, entities_by_type)


\* the loop of lines 223-229 with every free_text parameter taking the text,
\* prompted or not
RECURSIVE ExtractLoop_any_text(_, _, _, _, _)
ExtractLoop_any_text(parameters, i, current_state, extracted_parameters, entities_by_type) ==
    IF i > Len(parameters) THEN extracted_parameters
    ELSE LET param == parameters[i]
         IN  IF param.type = free_text
             THEN ExtractLoop_any_text(parameters, i + 1, current_state,
                      DictSet(extracted_parameters, param.name,
                              current_state.user_message.text),
                      entities_by_type)
             ELSE IF /\ param.type \in DOMAIN entities_by_type
                     /\ entities_by_type[param.type] # <<>>
             THEN ExtractLoop_any_text(parameters, i + 1, current_state,
                      DictSet(extracted_parameters, param.name,
                              Head(entities_by_type[param.type])),
                      [entities_by_type EXCEPT ![param.type] = Tail(@)])
             ELSE ExtractLoop_any_text(parameters, i + 1, current_state,
                      extracted_parameters, entities_by_type)

\* _process_intent, lines 223-229: the loop over the parameters from the i-th on
RECURSIVE ExtractLoop(_, _, _, _, _)
ExtractLoop(parameters, i, current_state, extracted_parameters, entities_by_type) ==
    IF i > Len(parameters) THEN extracted_parameters
    ELSE LET param == parameters[i]
         IN  IF param.type = free_text /\ current_state.current_node = param.name
             THEN ExtractLoop(parameters, i + 1, current_state,
                      DictSet(extracted_parameters, param.name,
                              current_state.user_message.text),
                      entities_by_type)
             ELSE IF /\ param.type \in DOMAIN entities_by_type
                     /\ entities_by_type[param.type] # <<>>
             THEN ExtractLoop(parameters, i + 1, current_state,
                      DictSet(extracted_parameters, param.name,
                              Head(entities_by_type[param.type])),
                      [entities_by_type EXCEPT ![param.type] = Tail(@)])
             ELSE ExtractLoop(parameters, i + 1, current_state,
                      extracted_parameters, entities_by_type)

\* _process_intent, lines 204-234: the slot-filling against active_intent
SlotFilling(active_intent, current_state) ==
    LET parameters == active_intent.parameters
        filled ==
            IF TruthyList(parameters)
            THEN LET entities_by_type ==
                         EntitiesByType(DictGet(current_state.nlu, "entities", EmptyDict))
                     snapshotted ==
                         IF Len(current_state.parameters) = 0
                         THEN [current_state EXCEPT !.parameters = Snapshot(parameters)]
                         ELSE current_state
                     extracted ==
                         [snapshotted EXCEPT !.extracted_parameters =
                             ExtractLoop(parameters, 1, snapshotted,
                                         snapshotted.extracted_parameters,
                                         entities_by_type)]
                 IN  _handle_missing_parameters(parameters, extracted)
            ELSE current_state
    IN  << [filled EXCEPT !.complete = (filled.missing_parameters = <<>>)],
           active_intent >>

\* _process_intent without the cancel branch
_process_intent_no_cancel(query_intent, active_intent, current_state) ==
    SlotFilling(active_intent, current_state)

\* _process_intent that takes the filled parameters off the intent's own list
_process_intent_consuming(query_intent, active_intent, current_state) ==
    LET done == SlotFilling(active_intent, current_state)
        left == SelectSeq(active_intent.parameters,
                    LAMBDA param : param.name \notin DOMAIN done[1].extracted_parameters)
    IN  <<done[1], [active_intent EXCEPT !.parameters = left]>>


\* _process_intent whose cancel branch sets complete and clears nothing
_process_intent_cancel_flag(query_intent, active_intent, current_state) ==
    IF query_intent.intent_id = cancel
    THEN <<[current_state EXCEPT !.complete = TRUE], query_intent>>
    ELSE SlotFilling(active_intent, current_state)

\* DialogueManager._process_intent: <<current_state, active_intent>>
_process_intent(query_intent, active_intent, current_state) ==
    IF query_intent.intent_id = cancel
    THEN << [current_state EXCEPT
                !.complete = TRUE,
                !.parameters = <<>>,
                !.extracted_parameters = EmptyDict,
                !.missing_parameters = <<>>,
                !.current_node = NoneStr],
            query_intent >>
    ELSE SlotFilling(active_intent, current_state)

\* lines 153-157 with the newly resolved intent always taken
ActiveIntent_query(current_state, query_intent_id, query_intent) == query_intent

\* DialogueManager.process, lines 153-157: the intent the turn is processed under
ActiveIntent(current_state, query_intent_id, query_intent) ==
    LET active_intent_id == get_active_intent_id(current_state)
    IN  IF TruthyStr(active_intent_id) /\ query_intent_id # active_intent_id
        THEN _get_intent(current_state.intent.id)
        ELSE query_intent

\* DialogueManager.process, lines 145-157: from the NLU result to the intents
Resolve(current_state, nlu_result) ==
    LET resolved == _get_intent_id_and_confidence(current_state, nlu_result)
        found == _get_intent(resolved[1])
        query_intent == IF found = None THEN _get_fallback_intent ELSE found
        with_nlu == [current_state EXCEPT !.nlu =
                        [entities |-> DictGet(nlu_result, "entities", None),
                         intent |-> DictGet(nlu_result, "intent", None)]]
    IN  [state |-> with_nlu, resolved |-> resolved, query_intent |-> query_intent,
         active_intent |-> ActiveIntent(with_nlu, resolved[1], query_intent)]

\* jinja2 Template(text, undefined=SilentUndefined).render(...): the templates of
\* the catalog hold no {{ }} or {% %}, and such a text renders to itself
render(template, context, parameters, result) == template

-----------------------------------------------------------------------------
(* Inputs *)

Calls == {"p1", "p2"}
Threads == {"t1", "t2"}

hello == <<"h", "i">>
Texts == {hello, SLASH \o book_flight, SLASH \o cancel, SLASH \o weather}

Contexts == {None, [lang |-> "en"]}

NluResult(intent, confidence, entities) ==
    [intent |-> [intent |-> intent, confidence |-> confidence], entities |-> entities]

NluResults ==
    { NluResult(book_flight, 90, (city :> Boston)),
      NluResult(book_flight, 50, (city :> Denver)),
      NluResult(report, 90, (topic :> billing)),
      NluResult(report, 49, (city :> Denver) @@ (topic :> billing)),
      NluResult(cancel, 90, EmptyDict),
      NluResult(unknown, 90, EmptyDict) }

NoError == ""

\* FacebookReceiver.process_webhook_event(data) before its first step: i and j
\* are the places of the loops over data['entry'] and entry['messaging'], k the
\* place in new_state.bot_message, log what it has done so far
Receiver(data) ==
    [data |-> data, i |-> 1, j |-> 1, k |-> 1, pc |-> "loop",
     message |-> None, reply |-> <<>>, log |-> <<>>]

-----------------------------------------------------------------------------
(* The state machine *)

Init ==
    /\ store = <<>>
    /\ nlu_pipeline = Pipeline
    /\ dm_intents = intents
    /\ um_outcome = ""
    /\ fb = Receiver(<<>>)
    /\ clock = 0
    /\ pc = [c \in Calls |-> "idle"]
    /\ p_message = [c \in Calls |-> None]
    /\ p_loaded = [c \in Calls |-> None]
    /\ p_state = [c \in Calls |-> None]
    /\ p_resolved = [c \in Calls |-> <<>>]
    /\ p_error = [c \in Calls |-> NoError]
    /\ p_steps = [c \in Calls |-> <<>>]

\* process raises exc: the locals are gone
Raise(c, exc) ==
    /\ pc' = [pc EXCEPT ![c] = "failed"]
    /\ p_error' = [p_error EXCEPT ![c] = exc]
    /\ p_state' = [p_state EXCEPT ![c] = None]

Step(c, name) == p_steps' = [p_steps EXCEPT ![c] = Append(@, name)]

\* process is called and goes to the get without the pipeline check
Start_unchecked(c, msg) ==
    /\ pc[c] = "idle"
    /\ clock < MaxCalls
    /\ clock' = clock + 1
    /\ p_message' = [p_message EXCEPT ![c] = msg]
    /\ pc' = [pc EXCEPT ![c] = "get"]
    /\ UNCHANGED <<store, nlu_pipeline, fb, um_outcome, dm_intents, p_loaded, p_state, p_resolved, p_error, p_steps>>

\* process is called (lines 128-134): the pipeline check, then the get is issued;
\* bound is the number of calls a behaviour starts
StartWithin(c, msg, bound) ==
    /\ pc[c] = "idle"
    /\ clock < bound
    /\ clock' = clock + 1
    /\ p_message' = [p_message EXCEPT ![c] = msg]
    /\ IF nlu_pipeline = None
       THEN Raise(c, "DialogueManagerException")
       ELSE /\ pc' = [pc EXCEPT ![c] = "get"]
            /\ UNCHANGED <<p_error, p_state>>
    /\ UNCHANGED <<store, nlu_pipeline, fb, um_outcome, dm_intents, p_loaded, p_resolved, p_steps>>

Start(c, msg) == StartWithin(c, msg, MaxCalls)

\* await self.memory_saver.get(message.thread_id) returns (lines 134-136)
Get(c) ==
    /\ pc[c] = "get"
    /\ LET found == get(store, p_message[c].thread_id, datetime(clock))
       IN  /\ p_state' = [p_state EXCEPT ![c] = found]
           /\ p_loaded' = [p_loaded EXCEPT ![c] = found]
           /\ pc' = [pc EXCEPT ![c] = IF found = None THEN "init_state" ELSE "update"]
    /\ Step(c, "get")
    /\ UNCHANGED <<store, nlu_pipeline, fb, um_outcome, dm_intents, clock, p_message, p_resolved, p_error>>

\* the get fails
GetFails(c) ==
    /\ pc[c] = "get"
    /\ Raise(c, "StoreError")
    /\ Step(c, "get")
    /\ UNCHANGED <<store, nlu_pipeline, fb, um_outcome, dm_intents, clock, p_message, p_loaded, p_resolved>>

\* await self.memory_saver.init_state(message.thread_id) returns (line 138)
InitState(c) ==
    /\ pc[c] = "init_state"
    /\ LET fresh == init_state(p_message[c].thread_id, datetime(clock))
       IN  /\ p_state' = [p_state EXCEPT ![c] = fresh]
           /\ p_loaded' = [p_loaded EXCEPT ![c] = fresh]
    /\ pc' = [pc EXCEPT ![c] = "update"]
    /\ Step(c, "init_state")
    /\ UNCHANGED <<store, nlu_pipeline, fb, um_outcome, dm_intents, clock, p_message, p_resolved, p_error>>

\* current_state.update(message) (line 140)
Update(c) ==
    /\ pc[c] = "update"
    /\ p_state' = [p_state EXCEPT ![c] = update(@, p_message[c], datetime(clock))]
    /\ pc' = [pc EXCEPT ![c] = "nlu"]
    /\ UNCHANGED <<store, nlu_pipeline, fb, um_outcome, dm_intents, clock, p_message, p_loaded, p_resolved, p_error, p_steps>>

\* active_intent is the catalog's own IntentModel object, not a copy: the catalog
\* holds it as _process_intent has left it
Held(catalog, active_intent) ==
    [catalog EXCEPT ![active_intent.intent_id] = active_intent]

\* the response phase entered whatever state.complete is
NextPhase_always(current_state, active_intent) ==
    IF active_intent.api_trigger /\ Truthy(active_intent.api_details)
    THEN "api"
    ELSE "render"

\* lines 162-167 and 255: what follows the slot-filling
NextPhase(current_state, active_intent) ==
    IF ~current_state.complete THEN "save"
    ELSE IF active_intent.api_trigger /\ Truthy(active_intent.api_details)
    THEN "api"
    ELSE "render"

\* lines 143-162: the NLU call, the intent resolution and the slot-filling
Nlu(c, nlu_result) ==
    /\ pc[c] = "nlu"
    /\ Step(c, "nlu")
    /\ IF nlu_pipeline = None
       THEN /\ Raise(c, "AttributeError")
            /\ UNCHANGED <<p_resolved, dm_intents>>
       ELSE LET r == Resolve(p_state[c], nlu_result)
            IN  IF r.active_intent = None /\ r.query_intent.intent_id # cancel
                THEN /\ Raise(c, "AttributeError")
                     /\ UNCHANGED <<p_resolved, dm_intents>>
                ELSE LET done == _process_intent(r.query_intent, r.active_intent, r.state)
                         current_state == [done[1] EXCEPT !.intent = [id |-> done[2].intent_id]]
                         active_intent == done[2]
                     IN  /\ p_state' = [p_state EXCEPT ![c] = current_state]
                         /\ p_resolved' = [p_resolved EXCEPT ![c] = r.resolved]
                         /\ pc' = [pc EXCEPT ![c] = NextPhase(current_state, active_intent)]
                         /\ dm_intents' = Held(dm_intents, active_intent)
                         /\ UNCHANGED p_error
    /\ UNCHANGED <<store, nlu_pipeline, fb, um_outcome, clock, p_message, p_loaded>>

\* self.nlu_pipeline.process raises
NluFails(c) ==
    /\ pc[c] = "nlu"
    /\ nlu_pipeline # None
    /\ Step(c, "nlu")
    /\ Raise(c, "NLUError")
    /\ UNCHANGED <<store, nlu_pipeline, fb, um_outcome, dm_intents, clock, p_message, p_loaded, p_resolved>>

\* _call_intent_api: call_api returns a result (lines 257, 285)
ApiReturns(c) ==
    /\ pc[c] = "api"
    /\ Step(c, "api")
    /\ pc' = [pc EXCEPT ![c] = "render"]
    /\ UNCHANGED <<store, nlu_pipeline, fb, um_outcome, dm_intents, clock, p_message, p_loaded, p_state, p_resolved, p_error>>

\* a failed API call that also marks the state as not complete
ApiFails_reopens(c) ==
    /\ pc[c] = "api"
    /\ Step(c, "api")
    /\ p_state' = [p_state EXCEPT ![c].bot_message = <<[text |-> SERVICE_UNAVAILABLE]>>,
                                  ![c].complete = FALSE]
    /\ pc' = [pc EXCEPT ![c] = "save"]
    /\ UNCHANGED <<store, nlu_pipeline, fb, um_outcome, dm_intents, clock, p_message, p_loaded, p_resolved, p_error>>

\* call_api raises APICallExcetion: _call_intent_api raises DialogueManagerException,
\* _handle_api_trigger sets the fixed message (lines 263-265, 286-288)
ApiFails(c) ==
    /\ pc[c] = "api"
    /\ Step(c, "api")
    /\ p_state' = [p_state EXCEPT ![c].bot_message = <<[text |-> SERVICE_UNAVAILABLE]>>]
    /\ pc' = [pc EXCEPT ![c] = "save"]
    /\ UNCHANGED <<store, nlu_pipeline, fb, um_outcome, dm_intents, clock, p_message, p_loaded, p_resolved, p_error>>

\* call_api raises another exception (http_client.py, lines 117-120)
ApiRaises(c) ==
    /\ pc[c] = "api"
    /\ Step(c, "api")
    /\ Raise(c, "Exception")
    /\ UNCHANGED <<store, nlu_pipeline, fb, um_outcome, dm_intents, clock, p_message, p_loaded, p_resolved>>


\* the response phase of an intent without api_trigger that leaves bot_message
Render_silent(c) ==
    /\ pc[c] = "render"
    /\ Step(c, "render")
    /\ pc' = [pc EXCEPT ![c] = "save"]
    /\ UNCHANGED <<store, nlu_pipeline, fb, um_outcome, dm_intents, clock, p_message, p_loaded, p_state, p_resolved, p_error>>

\* the speech_response is rendered and split (lines 258-261, 267-269)
Render(c) ==
    /\ pc[c] = "render"
    /\ Step(c, "render")
    /\ LET intent == dm_intents[p_state[c].intent.id]
           rendered_text == render(intent.speech_response, p_state[c].context,
                                   p_state[c].extracted_parameters, None)
       IN  p_state' = [p_state EXCEPT ![c].bot_message = Segments(rendered_text)]
    /\ pc' = [pc EXCEPT ![c] = "save"]
    /\ UNCHANGED <<store, nlu_pipeline, fb, um_outcome, dm_intents, clock, p_message, p_loaded, p_resolved, p_error>>

\* the rendering raises
RenderFails(c) ==
    /\ pc[c] = "render"
    /\ Step(c, "render")
    /\ Raise(c, "TemplateError")
    /\ UNCHANGED <<store, nlu_pipeline, fb, um_outcome, dm_intents, clock, p_message, p_loaded, p_resolved>>

\* await self.memory_saver.save(message.thread_id, current_state); return (lines 167-169)
Save(c) ==
    /\ pc[c] = "save"
    /\ Step(c, "save")
    /\ store' = save(store, p_message[c].thread_id, p_state[c])
    /\ pc' = [pc EXCEPT ![c] = "done"]
    /\ UNCHANGED <<nlu_pipeline, fb, um_outcome, dm_intents, clock, p_message, p_loaded, p_state, p_resolved, p_error>>

\* the save fails and the failure is swallowed
SaveFails_swallowed(c) ==
    /\ pc[c] = "save"
    /\ Step(c, "save")
    /\ pc' = [pc EXCEPT ![c] = "done"]
    /\ UNCHANGED <<store, nlu_pipeline, fb, um_outcome, dm_intents, clock, p_message, p_loaded, p_state, p_resolved, p_error>>


\* the save fails and is tried again
SaveFails_retried(c) ==
    /\ pc[c] = "save"
    /\ Len(p_steps[c]) < 7
    /\ Step(c, "save")
    /\ UNCHANGED <<store, nlu_pipeline, fb, um_outcome, dm_intents, clock, pc, p_message, p_loaded, p_state, p_resolved, p_error>>


\* the save raises after the document was written
SaveFails_written(c) ==
    /\ pc[c] = "save"
    /\ Step(c, "save")
    /\ store' = save(store, p_message[c].thread_id, p_state[c])
    /\ Raise(c, "StoreError")
    /\ UNCHANGED <<nlu_pipeline, fb, um_outcome, dm_intents, clock, p_message, p_loaded, p_resolved>>

\* the save fails
SaveFails(c) ==
    /\ pc[c] = "save"
    /\ Step(c, "save")
    /\ Raise(c, "StoreError")
    /\ UNCHANGED <<store, nlu_pipeline, fb, um_outcome, dm_intents, clock, p_message, p_loaded, p_resolved>>

\* the caller has the State, or the exception
Return(c) ==
    /\ pc[c] \in {"done", "failed"}
    /\ pc' = [pc EXCEPT ![c] = "idle"]
    /\ p_message' = [p_message EXCEPT ![c] = None]
    /\ p_loaded' = [p_loaded EXCEPT ![c] = None]
    /\ p_state' = [p_state EXCEPT ![c] = None]
    /\ p_resolved' = [p_resolved EXCEPT ![c] = <<>>]
    /\ p_error' = [p_error EXCEPT ![c] = NoError]
    /\ p_steps' = [p_steps EXCEPT ![c] = <<>>]
    /\ UNCHANGED <<store, nlu_pipeline, fb, um_outcome, dm_intents, clock>>

\* DialogueManager.update_model: load fails and the pipeline is dropped (lines 123-125)
UpdateModelFails ==
    /\ nlu_pipeline # None
    /\ nlu_pipeline' = None
    /\ um_outcome' = "dropped"
    /\ UNCHANGED <<store, fb, dm_intents, clock, pc, p_message, p_loaded, p_state, p_resolved, p_error, p_steps>>

\* DialogueManager.update_model: load succeeds, the handle stays (lines 123-126)
UpdateModelLoads ==
    /\ nlu_pipeline # None
    /\ um_outcome' = "updated"
    /\ UNCHANGED <<store, nlu_pipeline, fb, dm_intents, clock, pc, p_message, p_loaded, p_state, p_resolved, p_error, p_steps>>

\* an update_model on an absent handle that loads a pipeline again
UpdateModelRaises_reloads ==
    /\ nlu_pipeline = None
    /\ nlu_pipeline' = Pipeline
    /\ um_outcome' = "updated"
    /\ UNCHANGED <<store, fb, dm_intents, clock, pc, p_message, p_loaded, p_state, p_resolved, p_error, p_steps>>

\* DialogueManager.update_model on an absent handle: self.nlu_pipeline.load is an
\* attribute access on None and raises AttributeError (line 123)
UpdateModelRaises ==
    /\ nlu_pipeline = None
    /\ um_outcome' = "AttributeError"
    /\ UNCHANGED <<store, nlu_pipeline, fb, dm_intents, clock, pc, p_message, p_loaded, p_state, p_resolved, p_error, p_steps>>

Messages(threads) ==
    {UserMessage(t, text, context) : t \in threads, text \in Texts, context \in Contexts}

\* the steps of the process call c
ProcessStep(c) ==
    \/ Get(c) \/ GetFails(c) \/ InitState(c) \/ Update(c)
    \/ \E nlu_result \in NluResults : Nlu(c, nlu_result)
    \/ NluFails(c)
    \/ ApiReturns(c) \/ ApiFails(c) \/ ApiRaises(c)
    \/ Render(c) \/ RenderFails(c)
    \/ Save(c) \/ SaveFails(c)
    \/ Return(c)

\* one caller, one thread at a time: the calls follow each other
Next ==
    \/ \E msg \in Messages({"t1"}) : Start("p1", msg)
    \/ ProcessStep("p1")
    \/ UpdateModelFails

Spec == Init /\ [][Next]_vars

-----------------------------------------------------------------------------
(* The intent resolution on its own: every text up to MaxLen over Chars, under
   every NLU result of ResolveNluResults *)

Chars == {"/", "a", "b"}
ResolveTexts == UNION {[1..k -> Chars] : k \in 0..MaxLen}
ResolveConfidences == {0, 49, 50, 51, 100}
ResolveNluResults ==
    {NluResult(intent, confidence, EmptyDict) :
        intent \in {<<"a">>, cancel, fallback}, confidence \in ResolveConfidences}

\* a process call that has loaded a fresh state and updated it with the message
InitResolve ==
    /\ store = <<>>
    /\ nlu_pipeline = Pipeline
    /\ dm_intents = intents
    /\ um_outcome = ""
    /\ fb = Receiver(<<>>)
    /\ clock = 1
    /\ pc = [c \in Calls |-> IF c = "p1" THEN "nlu" ELSE "idle"]
    /\ \E text \in ResolveTexts :
          LET msg == UserMessage("t1", text, None)
              fresh == init_state("t1", datetime(1))
          IN  /\ p_message = [c \in Calls |-> IF c = "p1" THEN msg ELSE None]
              /\ p_loaded = [c \in Calls |-> IF c = "p1" THEN fresh ELSE None]
              /\ p_state = [c \in Calls |->
                               IF c = "p1" THEN update(fresh, msg, datetime(1)) ELSE None]
    /\ p_resolved = [c \in Calls |-> <<>>]
    /\ p_error = [c \in Calls |-> NoError]
    /\ p_steps = [c \in Calls |-> IF c = "p1" THEN <<"get", "init_state">> ELSE <<>>]

\* lines 143-151: the NLU call and the resolution of its result
ResolveIntent(c, nlu_result) ==
    /\ pc[c] = "nlu"
    /\ nlu_pipeline # None
    /\ Step(c, "nlu")
    /\ LET r == Resolve(p_state[c], nlu_result)
       IN  /\ p_state' = [p_state EXCEPT ![c] = r.state]
           /\ p_resolved' = [p_resolved EXCEPT ![c] = r.resolved]
    /\ pc' = [pc EXCEPT ![c] = "resolved"]
    /\ UNCHANGED <<store, nlu_pipeline, fb, um_outcome, dm_intents, clock, p_message, p_loaded, p_error>>

NextResolve == \E nlu_result \in ResolveNluResults : ResolveIntent("p1", nlu_result)

SpecResolve == InitResolve /\ [][NextResolve]_vars

-----------------------------------------------------------------------------
(* Concurrent callers: process is a coroutine, and the calls of two requests
   interleave at every await, on one thread or on two *)

ConcurrentMessages ==
    {UserMessage(t, hello, context) : t \in Threads, context \in {None}}

ConcurrentNluResults ==
    { NluResult(report, 90, (topic :> billing)),
      NluResult(weather, 90, (city :> Boston)) }

\* the steps of the call c of a request that meets no failure
SuccessStep(c) ==
    \/ Get(c) \/ InitState(c) \/ Update(c)
    \/ \E nlu_result \in ConcurrentNluResults : Nlu(c, nlu_result)
    \/ ApiReturns(c) \/ ApiFails(c)
    \/ Render(c)
    \/ Save(c)
    \/ Return(c)

NextConcurrent ==
    \/ \E c \in Calls :
        \/ \E msg \in ConcurrentMessages : Start(c, msg)
        \/ SuccessStep(c)
    \/ UpdateModelFails

SpecConcurrent == Init /\ [][NextConcurrent]_vars

-----------------------------------------------------------------------------
(* One thread whose messages carry a context: none, one key, or two keys of
   which one is the same key with another value *)

ContextMessages ==
    {UserMessage("t1", text, context) :
        text \in {hello, SLASH \o cancel},
        context \in {None, [lang |-> "en"], [lang |-> "fr", tz |-> "utc"]}}

NextContext ==
    \/ \E msg \in ContextMessages : Start("p1", msg)
    \/ SuccessStep("p1")

SpecContext == Init /\ [][NextContext]_vars

-----------------------------------------------------------------------------
(* One message sent again and again on one thread, by callers that interleave:
   runs of process that start from the same persisted state *)

RepeatMessages == {UserMessage("t1", hello, None)}

NextRepeat ==
    \E c \in Calls :
        \/ \E msg \in RepeatMessages : StartWithin(c, msg, MaxRuns)
        \/ SuccessStep(c)

SpecRepeat == Init /\ [][NextRepeat]_vars

-----------------------------------------------------------------------------
(* A catalog that changes between the turns of a conversation: from_config loads
   the intents when the service starts, the states stay in the store, so a turn
   after a restart meets the intents as they are then *)

\* report as a later catalog may hold it: with a required city parameter added,
\* with comment no longer declared, with comment no longer required
ReloadedIntents ==
    { IntentModel(report, FALSE, None, <<"T", "h", "x">>,
          << ParameterModel(topic, topic, TRUE, <<"A", "b", "o", "u", "t", "?">>),
             ParameterModel(comment, free_text, TRUE, <<"S", "a", "y">>),
             ParameterModel(place, city, TRUE, <<"W", "h", "e", "r", "e", "?">>) >>),
      IntentModel(report, FALSE, None, <<"T", "h", "x">>,
          << ParameterModel(topic, topic, TRUE, <<"A", "b", "o", "u", "t", "?">>) >>),
      IntentModel(report, FALSE, None, <<"T", "h", "x">>,
          << ParameterModel(topic, topic, TRUE, <<"A", "b", "o", "u", "t", "?">>),
             ParameterModel(comment, free_text, FALSE, <<"S", "a", "y">>) >>) }

CatalogNluResults ==
    { NluResult(report, 90, (topic :> billing)),
      NluResult(report, 90, (city :> Denver)),
      NluResult(book_flight, 90, EmptyDict) }

\* lines 143-162 in a service whose catalog holds live for live.intent_id
NluReloaded(c, nlu_result, live) ==
    /\ pc[c] = "nlu"
    /\ nlu_pipeline # None
    /\ Step(c, "nlu")
    /\ LET r == Resolve(p_state[c], nlu_result)
           Reloaded(intent) ==
               IF intent # None /\ intent.intent_id = live.intent_id THEN live ELSE intent
           done == _process_intent(Reloaded(r.query_intent), Reloaded(r.active_intent),
                                   r.state)
           current_state == [done[1] EXCEPT !.intent = [id |-> done[2].intent_id]]
           active_intent == done[2]
       IN  /\ r.active_intent # None
           /\ p_state' = [p_state EXCEPT ![c] = current_state]
           /\ p_resolved' = [p_resolved EXCEPT ![c] = r.resolved]
           /\ pc' = [pc EXCEPT ![c] = NextPhase(current_state, active_intent)]
    /\ UNCHANGED <<store, nlu_pipeline, fb, um_outcome, dm_intents, clock, p_message, p_loaded, p_error>>

NextCatalog ==
    \/ \E msg \in RepeatMessages : Start("p1", msg)
    \/ Get("p1") \/ InitState("p1") \/ Update("p1")
    \/ \E nlu_result \in CatalogNluResults : Nlu("p1", nlu_result)
    \/ \E nlu_result \in CatalogNluResults : \E live \in ReloadedIntents :
           NluReloaded("p1", nlu_result, live)
    \/ Render("p1") \/ Save("p1") \/ Return("p1")

SpecCatalog == Init /\ [][NextCatalog]_vars

-----------------------------------------------------------------------------
(* The split of the response: a service built with a fallback intent whose
   speech_response is any text up to MaxText over SplitChars, and turns that
   fall back to it *)

SplitChars == {"#", "a"}
SplitTexts == UNION {[1..k -> SplitChars] : k \in 0..MaxText}
SplitNluResults == {NluResult(unknown, 90, EmptyDict)}

\* DialogueManager.__init__ with such a catalog
InitSplit ==
    /\ store = <<>>
    /\ nlu_pipeline = Pipeline
    /\ \E text \in SplitTexts :
           dm_intents = [intents EXCEPT ![fallback_intent_id].speech_response = text]
    /\ um_outcome = ""
    /\ fb = Receiver(<<>>)
    /\ clock = 0
    /\ pc = [c \in Calls |-> "idle"]
    /\ p_message = [c \in Calls |-> None]
    /\ p_loaded = [c \in Calls |-> None]
    /\ p_state = [c \in Calls |-> None]
    /\ p_resolved = [c \in Calls |-> <<>>]
    /\ p_error = [c \in Calls |-> NoError]
    /\ p_steps = [c \in Calls |-> <<>>]

NextSplit ==
    \/ \E msg \in RepeatMessages : Start("p1", msg)
    \/ Get("p1") \/ InitState("p1") \/ Update("p1")
    \/ \E nlu_result \in SplitNluResults : Nlu("p1", nlu_result)
    \/ Render("p1") \/ Save("p1") \/ Return("p1")

SpecSplit == InitSplit /\ [][NextSplit]_vars

-----------------------------------------------------------------------------
(* The turns of one thread under an intent that calls the external API: up to
   MaxRuns calls, two of them at a time, with saves that fail *)

ApiNluResults ==
    { NluResult(weather, 90, EmptyDict),
      NluResult(weather, 90, (city :> Boston)) }

NextApi ==
    \E c \in Calls :
        \/ \E msg \in RepeatMessages : StartWithin(c, msg, MaxRuns)
        \/ Get(c) \/ InitState(c) \/ Update(c)
        \/ \E nlu_result \in ApiNluResults : Nlu(c, nlu_result)
        \/ ApiReturns(c) \/ ApiFails(c)
        \/ Render(c)
        \/ Save(c) \/ SaveFails(c)
        \/ Return(c)

SpecApi == Init /\ [][NextApi]_vars

-----------------------------------------------------------------------------
(* The pipeline handle over the life of the service: up to MaxRuns calls of
   process that follow each other, and update_model calls with every outcome *)

NextModel ==
    \/ \E msg \in RepeatMessages : StartWithin("p1", msg, MaxRuns)
    \/ SuccessStep("p1")
    \/ UpdateModelLoads \/ UpdateModelFails \/ UpdateModelRaises

SpecModel == Init /\ [][NextModel]_vars

-----------------------------------------------------------------------------
(* Slot-filling over the turns of one thread: up to MaxRuns turns that follow
   each other, none failing, under NLU results that bring a value for the
   prompted parameter and results that bring none *)

FillNluResults ==
    { NluResult(report, 90, EmptyDict),
      NluResult(report, 90, (topic :> billing)),
      NluResult(unknown, 90, (topic :> billing)),
      NluResult(book_flight, 90, (city :> Boston)) }

NextFill ==
    \/ \E msg \in RepeatMessages : StartWithin("p1", msg, MaxRuns)
    \/ Get("p1") \/ InitState("p1") \/ Update("p1")
    \/ \E nlu_result \in FillNluResults : Nlu("p1", nlu_result)
    \/ Render("p1") \/ Save("p1") \/ Return("p1")

SpecFill == Init /\ [][NextFill]_vars

-----------------------------------------------------------------------------
(* FacebookReceiver (app/bot/channels/facebook/messenger.py): one webhook payload
   handled by process_webhook_event, its events passed to DialogueManager.process
   and the segments of each reply sent *)

TextEvent(sender, text, timestamp) ==
    [sender |-> sender, message |-> [text |-> text], postback |-> None,
     timestamp |-> timestamp]

PostbackEvent(sender, payload, timestamp) ==
    [sender |-> sender, message |-> None, postback |-> [payload |-> payload],
     timestamp |-> timestamp]

\* a message without text, as one with an attachment only
OtherEvent(sender, timestamp) ==
    [sender |-> sender, message |-> [attachments |-> TRUE], postback |-> None,
     timestamp |-> timestamp]

WebhookPayloads ==
    { << [id |-> "pg1", messaging |-> << TextEvent("t1", SLASH \o weather, 1),
                                          TextEvent("t1", hello, 2) >>],
         [id |-> "pg2", messaging |-> << PostbackEvent("t2", SLASH \o book_flight, 3) >>] >>,
      << [id |-> "pg1", messaging |-> << TextEvent("", hello, 1),
                                          OtherEvent("t1", 2),
                                          TextEvent("t1", hello, 3) >>] >> }

WebhookNluResults ==
    { NluResult(book_flight, 90, (city :> Boston)),
      NluResult(report, 90, (topic :> billing)) }

\* process_messaging_event: the event leads to a handle_message call
Handled(event) ==
    /\ event.sender # ""
    /\ \/ event.message # None /\ "text" \in DOMAIN event.message
       \/ event.postback # None

\* process_messaging_event and handle_message: the UserMessage of an event
EventMessage(event, page_id) ==
    IF event.message # None /\ "text" \in DOMAIN event.message
    THEN UserMessage(event.sender, event.message.text,
             [channel |-> "facebook", page_id |-> page_id, timestamp |-> event.timestamp])
    ELSE UserMessage(event.sender, event.postback.payload,
             [channel |-> "facebook", page_id |-> page_id, timestamp |-> event.timestamp,
              is_postback |-> TRUE])

\* an entry of the receiver's log
Logged(op, k, segment) ==
    [op |-> op, i |-> fb.i, j |-> fb.j, k |-> k, segment |-> segment]

\* the receiver is at an event of the payload
AtEvent ==
    /\ fb.pc = "loop"
    /\ fb.i <= Len(fb.data)
    /\ fb.j <= Len(fb.data[fb.i].messaging)

FbFrame ==
    UNCHANGED <<store, nlu_pipeline, dm_intents, um_outcome, clock, pc, p_message,
                p_loaded, p_state, p_resolved, p_error, p_steps>>

\* the loop over entry['messaging'] is through: the next entry
FbNextEntry ==
    /\ fb.pc = "loop"
    /\ fb.i <= Len(fb.data)
    /\ fb.j > Len(fb.data[fb.i].messaging)
    /\ fb' = [fb EXCEPT !.i = @ + 1, !.j = 1]
    /\ FbFrame

\* the loop over data['entry'] is through: process_webhook_event returns
FbReturn ==
    /\ fb.pc = "loop"
    /\ fb.i > Len(fb.data)
    /\ fb' = [fb EXCEPT !.pc = "returned"]
    /\ FbFrame

\* process_messaging_event returns without a call: no sender id, or neither a
\* text nor a postback
FbSkip ==
    /\ AtEvent
    /\ ~Handled(fb.data[fb.i].messaging[fb.j])
    /\ fb' = [fb EXCEPT !.j = @ + 1]
    /\ FbFrame

\* handle_message builds the UserMessage and calls dialogue_manager.process
FbCall ==
    /\ AtEvent
    /\ Handled(fb.data[fb.i].messaging[fb.j])
    /\ pc["p1"] = "idle"
    /\ fb' = [fb EXCEPT
                !.pc = "call",
                !.message = EventMessage(fb.data[fb.i].messaging[fb.j], fb.data[fb.i].id),
                !.log = Append(@, Logged("process", 0, None))]
    /\ FbFrame

\* process has returned new_state: the loop over new_state.bot_message begins
FbTake ==
    /\ fb.pc = "call"
    /\ pc["p1"] = "done"
    /\ LET reply == p_state["p1"].bot_message
       IN  fb' = [fb EXCEPT
                    !.pc = IF reply = <<>> THEN "loop" ELSE "send",
                    !.j = IF reply = <<>> THEN @ + 1 ELSE @,
                    !.k = 1,
                    !.reply = reply,
                    !.log = Append(@, Logged("returned", Len(reply), None))]
    /\ FbFrame

\* process has raised: the exception leaves handle_message and both loops
FbRaise ==
    /\ fb.pc = "call"
    /\ pc["p1"] = "failed"
    /\ fb' = [fb EXCEPT !.pc = "raised", !.log = Append(@, Logged("raised", 0, None))]
    /\ FbFrame

\* a send that raises and is passed over, the loops going on
FbSendFails_ignored ==
    /\ fb.pc = "send"
    /\ fb' = [fb EXCEPT
                !.pc = "loop",
                !.j = @ + 1,
                !.log = Append(@, Logged("raised", fb.k, fb.reply[fb.k]))]
    /\ FbFrame

\* sender.send_message raises (HTTPException on a status other than 200)
FbSendFails ==
    /\ fb.pc = "send"
    /\ fb' = [fb EXCEPT
                !.pc = "raised",
                !.log = Append(@, Logged("raised", fb.k, fb.reply[fb.k]))]
    /\ FbFrame

\* await self.sender.send_message(sender_id, formatted_message) returns; after
\* the last segment handle_message returns and the loop goes to the next event
FbSend ==
    /\ fb.pc = "send"
    /\ fb' = [fb EXCEPT
                !.pc = IF fb.k = Len(fb.reply) THEN "loop" ELSE "send",
                !.j = IF fb.k = Len(fb.reply) THEN @ + 1 ELSE @,
                !.k = @ + 1,
                !.log = Append(@, Logged("sent", fb.k, fb.reply[fb.k]))]
    /\ FbFrame

\* the service at startup, with a webhook request whose payload is data
InitWebhook ==
    /\ store = <<>>
    /\ nlu_pipeline = Pipeline
    /\ dm_intents = intents
    /\ um_outcome = ""
    /\ \E data \in WebhookPayloads : fb = Receiver(data)
    /\ clock = 0
    /\ pc = [c \in Calls |-> "idle"]
    /\ p_message = [c \in Calls |-> None]
    /\ p_loaded = [c \in Calls |-> None]
    /\ p_state = [c \in Calls |-> None]
    /\ p_resolved = [c \in Calls |-> <<>>]
    /\ p_error = [c \in Calls |-> NoError]
    /\ p_steps = [c \in Calls |-> <<>>]

NextWebhook ==
    \/ FbNextEntry \/ FbReturn \/ FbSkip \/ FbCall
    \/ fb.pc = "call" /\ StartWithin("p1", fb.message, MaxRuns)
    \/ Get("p1") \/ InitState("p1") \/ Update("p1")
    \/ \E nlu_result \in WebhookNluResults : Nlu("p1", nlu_result)
    \/ ApiReturns("p1") \/ ApiFails("p1") \/ Render("p1")
    \/ Save("p1") \/ SaveFails("p1")
    \/ FbTake \/ FbRaise
    \/ fb.pc # "call" /\ Return("p1")
    \/ FbSend \/ FbSendFails

SpecWebhook == InitWebhook /\ [][NextWebhook]_vars

-----------------------------------------------------------------------------
(* Properties *)

\* the call c is past _process_intent and line 160, and has not returned
AfterProcessIntent(c) == pc[c] \in {"api", "render", "save", "done"}

\* the elements of a list
Elems(list) == {list[i] : i \in 1..Len(list)}

\* the names of the required entries of a parameter list that are no key of extracted
RequiredUnfilled(parameters, extracted) ==
    {parameters[i].name : i \in {j \in 1..Len(parameters) :
        /\ parameters[j].required
        /\ parameters[j].name \notin DOMAIN extracted}}

C2_TwoCities ==
    \A c \in Calls : pc[c] = "done" =>
        LET before == p_loaded[c]
            after == p_state[c]
        IN  /\ ( /\ "init_state" \in Elems(p_steps[c])
                 /\ after.intent = [id |-> book_flight]
                 /\ after.nlu.entities = (city :> Boston) )
                => /\ after.extracted_parameters = (origin :> Boston)
                   /\ after.missing_parameters = <<destination>>
                   /\ after.current_node = destination
                   /\ ~after.complete
            /\ ( /\ before.intent = [id |-> book_flight]
                 /\ before.extracted_parameters = (origin :> Boston)
                 /\ before.missing_parameters = <<destination>>
                 /\ before.current_node = destination
                 /\ ~before.complete
                 /\ after.nlu.entities = (city :> Denver)
                 /\ p_resolved[c][1] # cancel )
                => /\ after.extracted_parameters =
                          (origin :> Boston) @@ (destination :> Denver)
                   /\ after.missing_parameters = <<>>
                   /\ after.complete
                   /\ "render" \in Elems(p_steps[c])

\* C3: State.update on a state with complete = true sets bot_message, intent,
\* parameters, extracted_parameters, missing_parameters and current_node to their
\* empty values and complete to false
C3_ResetOnCompletion ==
    \A c \in Calls : (pc[c] = "nlu" /\ p_loaded[c].complete) =>
        /\ p_state[c].bot_message = <<>>
        /\ p_state[c].intent = None
        /\ p_state[c].parameters = <<>>
        /\ p_state[c].extracted_parameters = EmptyDict
        /\ p_state[c].missing_parameters = <<>>
        /\ p_state[c].current_node = NoneStr
        /\ p_state[c].complete = FALSE

\* C3 witness: update has run on a loaded state that was complete and held a slot
C3_Witness ==
    \E c \in Calls :
        /\ pc[c] = "nlu"
        /\ p_loaded[c].complete
        /\ p_loaded[c].extracted_parameters = (place :> Boston)
        /\ p_loaded[c].intent = [id |-> weather]

\* the names of a parameter list
Names(parameters) == {parameters[i].name : i \in 1..Len(parameters)}

\* the values a turn can extract: the text of its message and its NLU entities
TurnValues(c) ==
    {p_message[c].text} \cup
    {p_state[c].nlu.entities[k] : k \in DOMAIN p_state[c].nlu.entities}

\* the intent a turn without an active intent is processed under
Activated(c) ==
    IF p_resolved[c][1] \in DOMAIN intents THEN p_resolved[c][1] ELSE fallback_intent_id

\* C4: in the first turn after a turn that ended complete, the resulting state
\* holds only slot values of that turn's own message and NLU result, and its
\* parameters, missing_parameters and current_node are those of the intent
\* activated in that turn
C4_NoLeak ==
    \A c \in Calls : (AfterProcessIntent(c) /\ p_loaded[c].complete) =>
        LET after == p_state[c]
            active == intents[Activated(c)]
        IN  /\ after.intent = [id |-> Activated(c)]
            /\ after.parameters = Snapshot(active.parameters)
            /\ DOMAIN after.extracted_parameters \subseteq Names(active.parameters)
            /\ \A k \in DOMAIN after.extracted_parameters :
                   after.extracted_parameters[k] \in TurnValues(c)
            /\ Elems(after.missing_parameters) =
                   RequiredUnfilled(active.parameters, after.extracted_parameters)
            /\ after.current_node =
                   IF after.missing_parameters = <<>> THEN NoneStr
                   ELSE after.missing_parameters[1]

\* C4 witness: after a turn that completed weather with place = Boston, a turn
\* has activated report and filled topic
C4_Witness ==
    \E c \in Calls :
        /\ AfterProcessIntent(c)
        /\ p_loaded[c].complete
        /\ p_loaded[c].extracted_parameters = (place :> Boston)
        /\ p_state[c].intent = [id |-> report]
        /\ p_state[c].extracted_parameters = (topic :> billing)

\* the call c loaded a state with an active intent whose slots are being filled
MidSlotFilling(c) ==
    /\ ~p_loaded[c].complete
    /\ TruthyStr(get_active_intent_id(p_loaded[c]))

\* C5: whenever the intent resolved for a turn is the catalog's cancel intent, the
\* state after _process_intent has complete = true, parameters = [],
\* extracted_parameters = {}, missing_parameters = [], current_node = None, and
\* the active intent is cancel
C5_Cancel ==
    \A c \in Calls :
        (AfterProcessIntent(c) /\ p_resolved[c][1] = cancel /\ cancel \in DOMAIN intents) =>
            /\ p_state[c].complete
            /\ p_state[c].parameters = <<>>
            /\ p_state[c].extracted_parameters = EmptyDict
            /\ p_state[c].missing_parameters = <<>>
            /\ p_state[c].current_node = NoneStr
            /\ p_state[c].intent = [id |-> cancel]

\* C5 witness: cancel was resolved while report had topic filled and comment missing
C5_Witness ==
    \E c \in Calls :
        /\ AfterProcessIntent(c)
        /\ p_resolved[c][1] = cancel
        /\ MidSlotFilling(c)
        /\ p_loaded[c].intent = [id |-> report]
        /\ p_loaded[c].extracted_parameters = (topic :> billing)
        /\ p_loaded[c].missing_parameters = <<comment>>

\* the call c loaded a state that prompts for the free_text parameter named name
FreeTextPrompted(c, name) ==
    /\ TruthyStr(get_active_intent_id(p_loaded[c]))
    /\ p_loaded[c].intent.id \in DOMAIN intents
    /\ p_loaded[c].current_node = name
    /\ \E i \in 1..Len(intents[p_loaded[c].intent.id].parameters) :
           LET p == intents[p_loaded[c].intent.id].parameters[i]
           IN  p.name = name /\ p.type = free_text

\* the call c stored the whole text of its message in the slot named name
TextStored(c, name) ==
    /\ name \in DOMAIN p_state[c].extracted_parameters
    /\ p_state[c].extracted_parameters[name] = p_message[c].text

\* C6 as stated: in every turn that starts with current_node naming a free_text
\* parameter of the active intent, the slot holds the whole text of the turn's
\* message after the turn, whatever the NLU returned
C6_FreeTextAlways ==
    \A c \in Calls : \A name \in {comment, note} :
        (AfterProcessIntent(c) /\ FreeTextPrompted(c, name)) => TextStored(c, name)

\* C6 as amended: the same, unless the intent resolved for the turn is the
\* catalog's cancel intent
C6_FreeText ==
    \A c \in Calls : \A name \in {comment, note} :
        (/\ AfterProcessIntent(c)
         /\ FreeTextPrompted(c, name)
         /\ ~(p_resolved[c][1] = cancel /\ cancel \in DOMAIN intents))
        => TextStored(c, name)

\* C6 witness: comment was prompted, the NLU resolved another intent and returned
\* entities, and comment holds the text
C6_Witness ==
    \E c \in Calls :
        /\ AfterProcessIntent(c)
        /\ FreeTextPrompted(c, comment)
        /\ p_resolved[c][1] = book_flight
        /\ p_state[c].nlu.entities = (city :> Boston)
        /\ TextStored(c, comment)

\* C7: while a thread's state has an active intent, a turn whose resolved intent
\* id differs from it is slot-filled against the active intent and leaves
\* state.intent.id as it was; only a resolved cancel changes the active intent
C7_Continuity ==
    \A c \in Calls : (AfterProcessIntent(c) /\ MidSlotFilling(c)) =>
        LET before == p_loaded[c]
            after == p_state[c]
            kept == intents[before.intent.id]
        IN  /\ (p_resolved[c][1] # before.intent.id /\ p_resolved[c][1] # cancel) =>
                   /\ after.intent = before.intent
                   /\ after.parameters = Snapshot(kept.parameters)
                   /\ DOMAIN after.extracted_parameters \subseteq Names(kept.parameters)
                   /\ Elems(after.missing_parameters) =
                          RequiredUnfilled(kept.parameters, after.extracted_parameters)
            /\ after.intent # before.intent => p_resolved[c][1] = cancel

\* C7 witness: book_flight was active, the turn resolved report, and the state is
\* still under book_flight
C7_Witness ==
    \E c \in Calls :
        /\ AfterProcessIntent(c)
        /\ MidSlotFilling(c)
        /\ p_loaded[c].intent = [id |-> book_flight]
        /\ p_resolved[c][1] = report
        /\ p_state[c].intent = [id |-> book_flight]

\* the text from the i-th character up to the next "/" or the end
RECURSIVE UpToSlash(_, _)
UpToSlash(text, i) ==
    IF i > Len(text) \/ text[i] = "/" THEN <<>>
    ELSE <<text[i]>> \o UpToSlash(text, i + 1)

\* C8: for every text that starts with "/", the resolved intent id is the
\* substring between the first "/" and the second "/" (or the end of the text)
\* and the confidence is 1.0, whatever the NLU predicted
C8_SlashCommand ==
    \A c \in Calls :
        (pc[c] = "resolved" /\ Len(p_message[c].text) > 0 /\ p_message[c].text[1] = "/") =>
            p_resolved[c] = <<UpToSlash(p_message[c].text, 2), 100>>

\* C8 witness: "/a/" was resolved to a while the NLU predicted cancel at 0.51
C8_Witness ==
    \E c \in Calls :
        /\ pc[c] = "resolved"
        /\ p_message[c].text = <<"/", "a", "/">>
        /\ p_state[c].nlu.intent = [intent |-> cancel, confidence |-> 51]
        /\ p_resolved[c] = <<<<"a">>, 100>>

\* C9: for every text that does not start with "/", a predicted confidence
\* strictly below the threshold resolves to the fallback intent id with
\* confidence 1.0, and a confidence equal to or above it resolves to the
\* predicted id and confidence
C9_Threshold ==
    \A c \in Calls :
        (pc[c] = "resolved" /\ ~(Len(p_message[c].text) > 0 /\ p_message[c].text[1] = "/")) =>
            LET predicted == p_state[c].nlu.intent
            IN  p_resolved[c] =
                    IF predicted.confidence < confidence_threshold
                    THEN <<fallback_intent_id, 100>>
                    ELSE <<predicted.intent, predicted.confidence>>

\* C9 witness: a text without "/" was resolved to the predicted cancel at the
\* threshold itself
C9_Witness ==
    \E c \in Calls :
        /\ pc[c] = "resolved"
        /\ p_message[c].text = <<"a", "/">>
        /\ p_state[c].nlu.intent = [intent |-> cancel, confidence |-> confidence_threshold]
        /\ p_resolved[c] = <<cancel, confidence_threshold>>

\* C10: a process call made while the pipeline handle is absent fails with
\* DialogueManagerException at once: no get, init_state, NLU, API call or save
\* has run, the store is as it was and the call holds no state
C10_PipelineNotReady ==
    /\ [][\A c \in Calls :
            (pc[c] = "idle" /\ pc'[c] # "idle" /\ nlu_pipeline = None) =>
                /\ pc'[c] = "failed"
                /\ p_error'[c] = "DialogueManagerException"
                /\ p_steps'[c] = <<>>
                /\ p_state'[c] = None
                /\ store' = store]_vars
    /\ [](\A c \in Calls :
            (pc[c] = "failed" /\ p_error[c] = "DialogueManagerException") =>
                /\ p_steps[c] = <<>>
                /\ p_state[c] = None
                /\ p_loaded[c] = None)

\* C10 witness: a call has failed with DialogueManagerException after an earlier
\* call had stored a state
C10_Witness ==
    \E c \in Calls :
        /\ pc[c] = "failed"
        /\ p_error[c] = "DialogueManagerException"
        /\ nlu_pipeline = None
        /\ p_steps[c] = <<>>
        /\ Len(store) = 1

\* the call c has made the external API call and it did not return a result
ApiCallFailed(c) ==
    /\ pc[c] \in {"save", "done", "failed"}
    /\ "api" \in Elems(p_steps[c])
    /\ "render" \notin Elems(p_steps[c])

\* the only segment of the reply after a failed API call
Unavailable == <<[text |-> SERVICE_UNAVAILABLE]>>

\* C11 as stated: whenever the external API call fails, in whatever way, process
\* does not raise from it, bot_message is the single segment "Service is not
\* available. Please try again later.", and the state is saved and returned
C11_ApiFailureAbsorbed ==
    \A c \in Calls : ApiCallFailed(c) =>
        /\ p_error[c] # "Exception"
        /\ pc[c] \in {"save", "done"} => p_state[c].bot_message = Unavailable
        /\ pc[c] = "done" => store # <<>> /\ store[Len(store)] = to_dict(p_state[c])

\* the last collaborator the call c has called
LastStep(c) == p_steps[c][Len(p_steps[c])]

\* C12: a failure of the NLU call, of the rendering, or of the store's get or
\* save makes process raise: the failed call holds no State and no document of
\* its turn is in the store, a returned State has been through every step of its turn and is the
\* last document of the store, and the fixed reply stands only for a failed API call
C12_OtherFailuresRaise ==
    \A c \in Calls :
        /\ pc[c] = "failed" =>
               /\ p_error[c] # NoError
               /\ p_state[c] = None
               /\ \A i \in 1..Len(store) : store[i].date # isoformat(datetime(clock))
        /\ pc[c] = "done" =>
               /\ p_error[c] = NoError
               /\ p_loaded[c] # None
               /\ p_state[c].nlu # EmptyDict
               /\ store # <<>> /\ store[Len(store)] = to_dict(p_state[c])
               /\ p_state[c].complete =>
                      \/ p_state[c].bot_message = Unavailable /\ LastStep(c) = "save"
                            /\ "render" \notin Elems(p_steps[c])
                      \/ p_state[c].bot_message =
                            Segments(intents[p_state[c].intent.id].speech_response)
        /\ (pc[c] \in {"save", "done"} /\ p_state[c].bot_message = Unavailable) =>
               "api" \in Elems(p_steps[c])

\* C12 witness: the save of a completed turn has failed and the call has raised
C12_Witness ==
    \E c \in Calls :
        /\ pc[c] = "failed"
        /\ p_error[c] = "StoreError"
        /\ p_steps[c] = <<"get", "init_state", "nlu", "render", "save">>
        /\ store = <<>>

\* the prompt of the parameter named name of the intent, as bot_message segments
PromptOf(intent, name) ==
    LET i == CHOOSE i \in 1..Len(intent.parameters) : intent.parameters[i].name = name
    IN  Segments(intent.parameters[i].prompt)

\* C13: the response phase runs exactly in the turns whose state is complete
\* after slot-filling: a turn with missing parameters calls no API, renders no
\* speech_response and replies with the prompt of the first missing parameter,
\* and a complete turn is not saved before its response phase
C13_ResponseIffComplete ==
    \A c \in Calls : AfterProcessIntent(c) =>
        LET state == p_state[c]
            ran == {"api", "render"} \cap Elems(p_steps[c])
        IN  /\ state.missing_parameters # <<>> =>
                   /\ ~state.complete
                   /\ ran = {}
                   /\ pc[c] \in {"save", "done"}
                   /\ state.bot_message =
                          PromptOf(intents[state.intent.id], state.missing_parameters[1])
            /\ state.complete =>
                   /\ state.missing_parameters = <<>>
                   /\ pc[c] \in {"save", "done"} => ran # {}
            /\ ran # {} => state.complete

\* C13 witness: a turn ended with destination missing, replied with its two-part
\* prompt and was saved without a response phase
C13_Witness ==
    \E c \in Calls :
        /\ pc[c] = "done"
        /\ p_state[c].missing_parameters = <<destination>>
        /\ Len(p_state[c].bot_message) = 2
        /\ p_steps[c] = <<"get", "init_state", "nlu", "save">>

\* the fields of a State that a get gives back
Persisted(state) ==
    [thread_id |-> state.thread_id,
     context |-> state.context,
     intent |-> state.intent,
     parameters |-> state.parameters,
     extracted_parameters |-> state.extracted_parameters,
     missing_parameters |-> state.missing_parameters,
     complete |-> state.complete,
     current_node |-> state.current_node]

\* the call c has saved its state and d, on the same thread, has saved after it
SavedBefore(c, d) ==
    /\ c # d
    /\ pc[c] = "done" /\ pc[d] = "done"
    /\ p_message[c].thread_id = p_message[d].thread_id
    /\ Len(store) >= 2
    /\ store[Len(store)] = to_dict(p_state[d])
    /\ store[Len(store) - 1] = to_dict(p_state[c])

\* C14: when a call saves after another call on the same thread has saved, the
\* state a get returns from then on is exactly the one this later save wrote,
\* whatever the earlier-saving call had extracted
C14_LastWriterWins ==
    [][\A c, d \in Calls :
          (/\ c # d
           /\ pc[c] = "done"
           /\ pc[d] = "save" /\ pc'[d] = "done"
           /\ p_message[c].thread_id = p_message[d].thread_id)
          => LET found == get(store', p_message[d].thread_id, datetime(clock))
             IN  /\ found # None
                 /\ Persisted(found) = Persisted(p_state[d])]_vars

\* C14 witness: both calls loaded before either saved (both found no state), the
\* first to save had extracted topic, and a get returns a state without it
C14_Witness ==
    \E c, d \in Calls :
        /\ SavedBefore(c, d)
        /\ "init_state" \in Elems(p_steps[c])
        /\ "init_state" \in Elems(p_steps[d])
        /\ p_state[c].extracted_parameters = (topic :> billing)
        /\ get(store, p_message[d].thread_id, datetime(clock)).extracted_parameters
               = (place :> Boston)

\* the documents of the thread t, in the order of their insertion
DocsOf(collection, t) ==
    LET Own(doc) == doc.thread_id = t
    IN  SelectSeq(collection, Own)

\* the call c is between its start and its return, on the thread t
Running(c, t) ==
    /\ pc[c] \notin {"idle", "failed"}
    /\ p_message[c].thread_id = t

\* C15: calls on different threads do not meet: what a call loads is what a get
\* on the documents of its own thread alone gives, a save adds one document, of
\* the saving call's thread, and leaves the documents of every other thread as
\* they were, and a call suspended in its API call leaves the calls on other
\* threads able to take their next step
C15_ThreadIsolation ==
    /\ [][\A c \in Calls : \A t \in Threads :
            /\ (pc[c] = "get" /\ pc'[c] # "get" /\ p_message[c].thread_id = t) =>
                   /\ p_loaded'[c] = get(DocsOf(store, t), t, datetime(clock))
                   /\ p_loaded'[c] # None => p_loaded'[c].thread_id = t
            /\ (pc[c] = "save" /\ pc'[c] = "done" /\ p_message[c].thread_id = t) =>
                   /\ DocsOf(store', t) = Append(DocsOf(store, t), to_dict(p_state[c]))
                   /\ \A u \in Threads \ {t} : DocsOf(store', u) = DocsOf(store, u)
            /\ ~(pc[c] = "save" /\ pc'[c] = "done") /\ (\A d \in Calls \ {c} : pc'[d] = pc[d])
                   => store' = store]_vars
    /\ [](\A c, d \in Calls : \A t, u \in Threads :
            (/\ t # u
             /\ pc[c] = "api" /\ Running(c, t)
             /\ pc[d] # "done" /\ Running(d, u))
            => ENABLED SuccessStep(d))

\* C15 witness: the call on t1 is suspended in its API call, and the call on t2,
\* started after the first had updated its state, has completed its turn and
\* saved it
C15_Witness ==
    \E c, d \in Calls :
        /\ pc[c] = "api" /\ Running(c, "t1")
        /\ pc[d] = "done" /\ Running(d, "t2")
        /\ p_state[c].date = datetime(1)
        /\ p_state[d].date = datetime(2)
        /\ DocsOf(store, "t1") = <<>>
        /\ store = <<to_dict(p_state[d])>>

\* the call c has loaded and updated its state
Updated(c) == pc[c] \in {"nlu", "api", "render", "save", "done"}

\* C16: every key of the context a turn loaded is in the state's context during
\* and after the turn, with the value of the message's context if that holds the
\* key and with its loaded value otherwise; the loaded context is the persisted
\* one and the context after the turn is the one persisted
C16_ContextGrows ==
    \A c \in Calls : Updated(c) =>
        LET before == p_loaded[c].context
            after == p_state[c].context
            sent == p_message[c].context
            docs == DocsOf(store, p_message[c].thread_id)
            saved == IF pc[c] = "done" THEN Len(docs) - 1 ELSE Len(docs)
        IN  /\ \A k \in DOMAIN before :
                   /\ k \in DOMAIN after
                   /\ after[k] = IF sent # None /\ k \in DOMAIN sent
                                 THEN sent[k] ELSE before[k]
            /\ before = IF saved = 0 THEN EmptyDict ELSE docs[saved].context
            /\ pc[c] = "done" => docs[Len(docs)].context = after

\* C16 witness: a turn on a completed state with the context {lang: fr, tz: utc}
\* got a message with the context {lang: en} and saved {lang: en, tz: utc}
C16_Witness ==
    \E c \in Calls :
        /\ pc[c] = "done"
        /\ p_loaded[c].complete
        /\ p_loaded[c].context = [lang |-> "fr", tz |-> "utc"]
        /\ p_message[c].context = [lang |-> "en"]
        /\ p_state[c].context = [lang |-> "en", tz |-> "utc"]

\* the calls c and d are two runs of process on the same message, the same
\* persisted state and the same NLU result
SameRun(c, d) ==
    /\ c # d
    /\ AfterProcessIntent(c) /\ AfterProcessIntent(d)
    /\ p_message[c] = p_message[d]
    /\ Persisted(p_loaded[c]) = Persisted(p_loaded[d])
    /\ p_state[c].nlu = p_state[d].nlu

C18_SnapshotIterated ==
    \A c \in Calls :
        (AfterProcessIntent(c) /\ MidSlotFilling(c) /\ p_resolved[c][1] # cancel) =>
            LET snapshot == p_loaded[c].parameters
            IN  /\ p_state[c].parameters = snapshot
                /\ DOMAIN p_state[c].extracted_parameters \subseteq Names(snapshot)
                /\ Elems(p_state[c].missing_parameters) =
                       RequiredUnfilled(snapshot, p_state[c].extracted_parameters)

\* what get(t) gives on the store: nothing, or the persisted fields of a State
Got(collection, t) ==
    LET found == get(collection, t, datetime(clock))
    IN  IF found = None THEN None ELSE Persisted(found)

NoActiveIntent(c) ==
    \/ p_loaded[c].complete
    \/ ~TruthyStr(get_active_intent_id(p_loaded[c]))

\* C20: a resolved intent id that is not in the catalog, in a turn with no active
\* intent, is processed under the fallback intent and leaves state.intent.id =
\* the fallback id; after slot-filling, and in every saved state, state.intent.id
\* is an id of the catalog
C20_UnknownIsFallback ==
    /\ \A c \in Calls : AfterProcessIntent(c) =>
           /\ p_state[c].intent.id \in DOMAIN intents
           /\ (p_resolved[c][1] \notin DOMAIN intents /\ NoActiveIntent(c)) =>
                  /\ p_state[c].intent = [id |-> fallback_intent_id]
                  /\ p_state[c].parameters = Snapshot(_get_fallback_intent.parameters)
                  /\ pc[c] = "done" =>
                         p_state[c].bot_message =
                             Segments(intents[fallback_intent_id].speech_response)
    /\ \A i \in 1..Len(store) : store[i].intent.id \in DOMAIN intents

\* C20 witness: the NLU predicted an intent the catalog does not hold, on a
\* thread without state, and the turn was saved under the fallback intent
C20_Witness ==
    \E c \in Calls :
        /\ pc[c] = "done"
        /\ p_resolved[c] = <<unknown, 90>>
        /\ "init_state" \in Elems(p_steps[c])
        /\ p_state[c].intent = [id |-> fallback]
        /\ store[Len(store)].intent = [id |-> fallback]

\* C21: the intent catalog, with every IntentModel and ParameterModel in it, is
\* after every step of every process call and after update_model the catalog
\* given at construction
C21_CatalogFrame == dm_intents = intents

\* C21 witness: one call has filled a slot of report and saved, another is past
\* its slot-filling on the same thread, and update_model has dropped the pipeline
C21_Witness ==
    \E c, d \in Calls :
        /\ c # d
        /\ pc[c] = "done" /\ pc[d] = "save"
        /\ p_state[c].extracted_parameters = (topic :> billing)
        /\ p_state[d].intent = [id |-> report]
        /\ nlu_pipeline = None
        /\ dm_intents[report].parameters = IntentList[2].parameters

\* the position of the parameter called name in a parameter list
PositionOf(parameters, name) ==
    CHOOSE i \in 1..Len(parameters) : parameters[i].name = name

\* the texts of a list of segments put together with sep between them
RECURSIVE Join(_, _)
Join(parts, sep) ==
    IF parts = <<>> THEN <<>>
    ELSE IF Len(parts) = 1 THEN parts[1]
    ELSE parts[1] \o sep \o Join(Tail(parts), sep)

\* sep occurs in text
Occurs(sep, text) ==
    \E i \in 1..Len(text) :
        i + Len(sep) - 1 <= Len(text) /\ SubSeq(text, i, i + Len(sep) - 1) = sep

\* the turn of c was processed under a non-cancel intent that declares parameters
SlotsFilled(c) ==
    /\ AfterProcessIntent(c)
    /\ p_resolved[c][1] # cancel
    /\ intents[p_state[c].intent.id].parameters # <<>>

\* C22: after _process_intent on a non-cancel intent with parameters,
\* missing_parameters lists the required parameters without a value, each once and
\* in the order the intent declares them; if it is not empty, current_node is its
\* first name and bot_message is that parameter's prompt cut at every '###'; if it
\* is empty, current_node is None
C22_FirstMissing ==
    \A c \in Calls : SlotsFilled(c) =>
        LET state == p_state[c]
            declared == intents[state.intent.id].parameters
            missing == state.missing_parameters
        IN  /\ Elems(missing) = RequiredUnfilled(declared, state.extracted_parameters)
            /\ \A i, j \in 1..Len(missing) :
                   i < j => PositionOf(declared, missing[i]) < PositionOf(declared, missing[j])
            /\ missing = <<>> => state.current_node = NoneStr
            /\ missing # <<>> =>
                   LET texts == [i \in 1..Len(state.bot_message) |-> state.bot_message[i].text]
                   IN  /\ state.current_node = missing[1]
                       /\ Join(texts, DELIM) =
                              declared[PositionOf(declared, missing[1])].prompt
                       /\ \A i \in 1..Len(texts) : ~Occurs(DELIM, texts[i])

\* C22 witness: a turn under book_flight without a city has missed both parameters
\* and prompted for origin; the next turn of the thread fills origin and prompts
\* for destination with the two segments of its prompt
C22_Witness ==
    \E c \in Calls :
        /\ SlotsFilled(c)
        /\ p_loaded[c].missing_parameters = <<origin, destination>>
        /\ p_loaded[c].current_node = origin
        /\ p_state[c].missing_parameters = <<destination>>
        /\ p_state[c].current_node = destination
        /\ p_state[c].bot_message =
               <<[text |-> <<"T", "o", "?">>], [text |-> <<"W", "?">>]>>

\* the slot values a turn starts from: those loaded, none after a completed turn
SlotsBefore(c) ==
    IF p_loaded[c].complete THEN EmptyDict ELSE p_loaded[c].extracted_parameters

\* the positions of the parameters of the entity type k in a parameter list
OfType(parameters, k) == {i \in 1..Len(parameters) : parameters[i].type = k}

\* C23: in one turn the value of each NLU entity goes to the first parameter, in
\* declared order, of the entity's type, over the value an earlier turn left
\* there, and to no other parameter: with no further value of the type, every
\* later parameter of the type keeps what it held before the turn
C23_FirstOfType ==
    \A c \in Calls : SlotsFilled(c) =>
        LET declared == intents[p_state[c].intent.id].parameters
            entities == p_state[c].nlu.entities
            after == p_state[c].extracted_parameters
        IN  \A k \in DOMAIN entities : \A i \in OfType(declared, k) :
                IF \A j \in OfType(declared, k) : i <= j
                THEN /\ declared[i].name \in DOMAIN after
                     /\ after[declared[i].name] = entities[k]
                ELSE /\ declared[i].name \in DOMAIN after <=>
                            declared[i].name \in DOMAIN SlotsBefore(c)
                     /\ declared[i].name \in DOMAIN after =>
                            after[declared[i].name] = SlotsBefore(c)[declared[i].name]

\* C23 witness: origin held Boston from an earlier turn, the turn's NLU result
\* holds the city Denver, and after the turn origin is Denver and destination,
\* of the same type, has no value
C23_Witness ==
    \E c \in Calls :
        /\ SlotsFilled(c)
        /\ SlotsBefore(c) = (origin :> Boston)
        /\ p_state[c].nlu.entities = (city :> Denver)
        /\ p_state[c].extracted_parameters = (origin :> Denver)
        /\ p_state[c].missing_parameters = <<destination>>

\* the awaited steps of process in the order of its code
StepOrder == <<"get", "init_state", "nlu", "api", "render", "save">>

\* the place of a step in StepOrder
Place(name) == CHOOSE i \in 1..Len(StepOrder) : StepOrder[i] = name

\* C24: the steps of a call follow the order get, init_state, NLU, API call,
\* rendering, save, each at most once, also in a call that failed; a call that
\* returned did one get, init_state exactly when the thread had no document, one
\* NLU call, API call and rendering only in a complete turn, and one save as its
\* last step, and the State it returned is the document that was saved
C24_StepOrder ==
    \A c \in Calls :
        /\ \A i, j \in 1..Len(p_steps[c]) :
               i < j => Place(p_steps[c][i]) < Place(p_steps[c][j])
        /\ pc[c] = "failed" => p_state[c] = None
        /\ pc[c] = "done" =>
               /\ p_steps[c][1] = "get"
               /\ "nlu" \in Elems(p_steps[c])
               /\ LastStep(c) = "save"
               /\ "init_state" \in Elems(p_steps[c]) <=>
                      Len(DocsOf(store, p_message[c].thread_id)) = 1
               /\ {"api", "render"} \cap Elems(p_steps[c]) # {} => p_state[c].complete
               /\ store[Len(store)] = to_dict(p_state[c])

\* C24 witness: the second turn of a thread completed weather and returned after
\* get, NLU, API call, rendering and save
C24_Witness ==
    \E c \in Calls :
        /\ pc[c] = "done"
        /\ p_steps[c] = <<"get", "nlu", "api", "render", "save">>
        /\ p_state[c].intent = [id |-> weather]
        /\ Len(store) = 2

\* the fields of State that update(message) writes in every state
Written == {"user_message", "date", "context"}

\* C25: update(message) on a state that is not complete leaves every field but
\* user_message, date and context as it was, among them intent, parameters,
\* extracted_parameters, missing_parameters, current_node, complete and
\* thread_id; user_message is the message, date the time of the call, and context
\* the loaded context with the message's context merged over it
C25_UpdateFrame ==
    \A c \in Calls : (pc[c] = "nlu" /\ ~p_loaded[c].complete) =>
        LET before == p_loaded[c]
            after == p_state[c]
        IN  /\ DOMAIN after = DOMAIN before
            /\ \A field \in (DOMAIN before) \ Written : after[field] = before[field]
            /\ {"intent", "parameters", "extracted_parameters", "missing_parameters",
                "current_node", "complete", "thread_id"} \subseteq (DOMAIN before) \ Written
            /\ after.user_message = p_message[c]
            /\ after.date = datetime(clock)
            /\ \A k \in DOMAIN after.context :
                   after.context[k] =
                       IF p_message[c].context # None /\ k \in DOMAIN p_message[c].context
                       THEN p_message[c].context[k]
                       ELSE before.context[k]
            /\ DOMAIN after.context = DOMAIN before.context \cup
                   (IF p_message[c].context = None THEN {} ELSE DOMAIN p_message[c].context)

\* C25 witness: update has run on a loaded state under book_flight with origin
\* filled and destination missing, with a message that brings another context
C25_Witness ==
    \E c \in Calls :
        /\ pc[c] = "nlu"
        /\ ~p_loaded[c].complete
        /\ p_loaded[c].intent = [id |-> book_flight]
        /\ p_loaded[c].extracted_parameters = (origin :> Boston)
        /\ p_loaded[c].missing_parameters = <<destination>>
        /\ p_loaded[c].current_node = destination
        /\ p_state[c].context # p_loaded[c].context

\* str.count(sep): the occurrences of sep in s, scanned left to right without
\* overlap
RECURSIVE count(_, _)
count(s, sep) ==
    LET i == find(s, sep, 1)
    IN  IF i = 0 THEN 0 ELSE 1 + count(SubSeq(s, i + Len(sep), Len(s)), sep)

\* the call c has rendered the speech_response of its intent
Rendered(c) ==
    /\ pc[c] \in {"save", "done"}
    /\ LastStep(c) \in {"render", "save"}
    /\ "render" \in Elems(p_steps[c])

\* C26: split_sentence cuts a text at '###': a text with k occurrences of '###'
\* (counted left to right without overlap) gives k + 1 segments which, put
\* together in their order with '###' between them, are the text; a text without
\* '###', the empty text included, gives the text as its one segment
C26_SplitSentence ==
    \A c \in Calls : Rendered(c) =>
        LET text == dm_intents[p_state[c].intent.id].speech_response
            texts == [i \in 1..Len(p_state[c].bot_message) |-> p_state[c].bot_message[i].text]
        IN  /\ Len(texts) = count(text, DELIM) + 1
            /\ Join(texts, DELIM) = text
            /\ ~Occurs(DELIM, text) => texts = <<text>>

\* C26 witness: the response 'a######' was split into 'a' and two empty segments
C26_Witness ==
    \E c \in Calls :
        /\ Rendered(c)
        /\ dm_intents[fallback_intent_id].speech_response =
               <<"a", "#", "#", "#", "#", "#", "#">>
        /\ p_state[c].bot_message = <<[text |-> <<"a">>], [text |-> <<>>], [text |-> <<>>]>>

\* C26 second witness: the empty response was split into one empty segment
C26_WitnessEmpty ==
    \E c \in Calls :
        /\ Rendered(c)
        /\ dm_intents[fallback_intent_id].speech_response = <<>>
        /\ p_state[c].bot_message = <<[text |-> <<>>]>>

\* C27: a call that raises has written nothing: the step by which a call fails
\* and every step of a call but its successful save leave the store as it is,
\* and after a call has failed past its get, a get for its thread returns the
\* persisted fields the failed call had loaded, or none if it had found none
C27_FailureKeepsStore ==
    /\ [][\A c \in Calls :
            /\ (pc'[c] = "failed" /\ pc[c] # "failed") => store' = store
            /\ store' # store => \E d \in Calls : pc[d] = "save" /\ pc'[d] = "done"]_vars
    /\ [](\A c \in Calls : (pc[c] = "failed" /\ p_loaded[c] # None) =>
            IF "init_state" \in Elems(p_steps[c])
            THEN Got(store, p_message[c].thread_id) = None
            ELSE Got(store, p_message[c].thread_id) = Persisted(p_loaded[c]))

\* C27 witness: the second turn of a thread filled place, completed weather,
\* called the API, rendered, and failed in its save; the store holds the one
\* document of the first turn, with place missing
C27_Witness ==
    \E c \in Calls :
        /\ pc[c] = "failed"
        /\ p_steps[c] = <<"get", "nlu", "api", "render", "save">>
        /\ Len(store) = 1
        /\ store[1].missing_parameters = <<place>>
        /\ store[1].extracted_parameters = EmptyDict
        /\ ~store[1].complete

\* the names of the entries of a persisted parameters list
Declared(doc) == {doc.parameters[i].name : i \in 1..Len(doc.parameters)}

\* a persisted state in the shape C28 describes, with the values in none that
\* current_node may have when the state is complete
Shaped(doc, none) ==
    /\ \/ /\ doc.complete
          /\ doc.missing_parameters = <<>>
          /\ doc.current_node \in none
       \/ /\ ~doc.complete
          /\ doc.missing_parameters # <<>>
          /\ doc.current_node = doc.missing_parameters[1]
          /\ doc.intent.id \in DOMAIN intents
          /\ doc.parameters # <<>>
          /\ doc.parameters = Snapshot(intents[doc.intent.id].parameters)
    /\ Elems(doc.missing_parameters) \subseteq Declared(doc)
    /\ DOMAIN doc.extracted_parameters \subseteq Declared(doc)

\* C28: every persisted state is either complete with no missing parameter and
\* current_node None or the empty string, or not complete with missing
\* parameters, current_node the first of them, intent.id an id of the catalog and
\* parameters the parameter list, not empty, of that intent; in both, the missing
\* names and the keys of extracted_parameters are names of entries of parameters
C28_PersistedShape ==
    \A i \in 1..Len(store) : Shaped(store[i], {NoneStr, EmptyStr})

\* C28 as stated: the current_node of a complete persisted state is None
C28_PersistedShapeNone ==
    \A i \in 1..Len(store) : Shaped(store[i], {NoneStr})

\* C28 witness: the store holds the state of a first turn that fell back, complete
\* with the empty string for current_node, and after it a state of book_flight
\* with both parameters missing
C28_Witness ==
    /\ Len(store) = 2
    /\ store[1].complete
    /\ store[1].intent = [id |-> fallback]
    /\ store[1].current_node = EmptyStr
    /\ ~store[2].complete
    /\ store[2].missing_parameters = <<origin, destination>>
    /\ store[2].current_node = origin

\* C28 second witness: a state of book_flight and the state of the turn that
\* cancelled it, with current_node None
C28_WitnessCancel ==
    /\ Len(store) = 2
    /\ ~store[1].complete
    /\ store[1].missing_parameters = <<origin, destination>>
    /\ store[2].complete
    /\ store[2].intent = [id |-> cancel]
    /\ store[2].parameters = <<>>
    /\ store[2].current_node = NoneStr

\* the call c has sent its request to the external API
Invoked(c) == pc[c] = "api" \/ "api" \in Elems(p_steps[c])

\* the calls c and d work on one activation: both loaded the same document, a
\* state that is not complete and holds an active intent
SameActivation(c, d) ==
    /\ c # d
    /\ pc[c] \notin {"idle", "get", "init_state"}
    /\ pc[d] \notin {"idle", "get", "init_state"}
    /\ p_loaded[c] = p_loaded[d]
    /\ MidSlotFilling(c)

\* C29 as stated: for one activation of an intent with api_trigger the external
\* API is invoked at most once, whatever the interleaving of the calls of the
\* thread and whatever fails after the API call
C29_ApiOnce ==
    \A c, d \in Calls : SameActivation(c, d) => ~(Invoked(c) /\ Invoked(d))

\* C30 as stated: a call that has passed the pipeline check is at its NLU step
\* with the pipeline present, also when update_model has run since the check,
\* and a call that fails for an absent pipeline fails with
\* DialogueManagerException
C30_PipelineAtNlu ==
    /\ [](\A c \in Calls : pc[c] = "nlu" => nlu_pipeline # None)
    /\ [][\A c \in Calls :
            (pc[c] \in {"idle", "nlu"} /\ pc'[c] = "failed" /\ nlu_pipeline = None) =>
                p_error'[c] = "DialogueManagerException"]_vars

\* C31: once update_model has dropped the pipeline handle, the handle stays
\* absent: no step makes it present again, every update_model after it ends in
\* AttributeError with the handle still absent, and every process call that
\* starts after it fails with DialogueManagerException
C31_PipelineStaysAbsent ==
    /\ [](um_outcome \in {"dropped", "AttributeError"} <=> nlu_pipeline = None)
    /\ [][/\ nlu_pipeline = None => nlu_pipeline' = None
          /\ (nlu_pipeline = None /\ um_outcome' # um_outcome) =>
                 um_outcome' = "AttributeError"
          /\ \A c \in Calls :
                 (nlu_pipeline = None /\ pc[c] = "idle" /\ pc'[c] # "idle") =>
                     /\ pc'[c] = "failed"
                     /\ p_error'[c] = "DialogueManagerException"]_vars

\* C31 witness: a turn was saved, update_model dropped the handle, a later
\* update_model raised, and the call started after that has failed with
\* DialogueManagerException
C31_Witness ==
    \E c \in Calls :
        /\ Len(store) = 1
        /\ nlu_pipeline = None
        /\ um_outcome = "AttributeError"
        /\ pc[c] = "failed"
        /\ p_error[c] = "DialogueManagerException"
        /\ p_steps[c] = <<>>

\* the required parameters of an intent
Required(intent) == SelectSeq(intent.parameters, LAMBDA param : param.required)

\* the required parameters of the intent have pairwise distinct types, but for
\* free_text
DistinctTypes(intent) ==
    \A i, j \in 1..Len(Required(intent)) :
        i # j => \/ Required(intent)[i].type # Required(intent)[j].type
                 \/ Required(intent)[i].type = free_text

\* the turn saved as doc brought a value for the parameter that the state before
\* it, prev, prompted for: any text for free_text, else an entity of its type
Supplies(prev, doc) ==
    LET declared == intents[prev.intent.id].parameters
        prompted == declared[PositionOf(declared, prev.current_node)]
    IN  \/ prompted.type = free_text
        \/ prompted.type \in DOMAIN doc.nlu.entities

\* the turn saved as the i-th document went on with the slot-filling of the
\* document before it, under an intent with distinct types, and was no cancel
Continues(i) ==
    /\ i \in 2..Len(store)
    /\ ~store[i - 1].complete
    /\ DistinctTypes(intents[store[i - 1].intent.id])
    /\ store[i].intent.id # cancel

\* the i-th document is of the turn that activated its intent
Activates(i) ==
    /\ i \in 1..Len(store)
    /\ i = 1 \/ store[i - 1].complete
    /\ DistinctTypes(intents[store[i].intent.id])

FreeTextOf(intent, required) ==
    {intent.parameters[i].name :
        i \in {j \in 1..Len(intent.parameters) :
                  /\ intent.parameters[j].type = free_text
                  /\ intent.parameters[j].required \in required}}

\* the names of the free_text parameters of the catalog
FreeTextNames == UNION {FreeTextOf(intents[id], BOOLEAN) : id \in DOMAIN intents}

\* the names of the optional ones
OptionalFreeTextNames == UNION {FreeTextOf(intents[id], {FALSE}) : id \in DOMAIN intents}

\* C33: with no NLU entity of type free_text, a free_text parameter gets or
\* changes its value only in a turn that started with current_node equal to its
\* name; the turn that activates an intent fills none, and an optional free_text
\* parameter has no value in any state of a call or of the store
C33_FreeTextOnlyPrompted ==
    /\ \A c \in Calls : AfterProcessIntent(c) =>
           \A name \in FreeTextNames \cap DOMAIN p_state[c].extracted_parameters :
               \/ /\ MidSlotFilling(c)
                  /\ p_loaded[c].current_node = name
               \/ /\ name \in DOMAIN SlotsBefore(c)
                  /\ SlotsBefore(c)[name] = p_state[c].extracted_parameters[name]
    /\ \A c \in Calls : (AfterProcessIntent(c) /\ NoActiveIntent(c)) =>
           FreeTextNames \cap DOMAIN p_state[c].extracted_parameters = {}
    /\ \A c \in Calls : pc[c] \notin {"idle", "get", "init_state", "failed"} =>
           OptionalFreeTextNames \cap DOMAIN p_state[c].extracted_parameters = {}
    /\ \A i \in 1..Len(store) :
           OptionalFreeTextNames \cap DOMAIN store[i].extracted_parameters = {}

\* C33 witness: a turn that started with comment prompted stored its text as
\* comment, completed report, and left the optional note without a value
C33_Witness ==
    \E c \in Calls :
        /\ AfterProcessIntent(c)
        /\ p_loaded[c].current_node = comment
        /\ comment \notin DOMAIN SlotsBefore(c)
        /\ p_state[c].extracted_parameters = (topic :> billing) @@ (comment :> hello)
        /\ p_state[c].complete
        /\ note \in OptionalFreeTextNames

\* C34: the State a successful call returns has a bot_message of at least one
\* segment, each with a text: the split prompt of the first missing parameter in
\* a turn that ends incomplete, the split speech_response of the intent or the
\* one fixed segment in a turn that ends complete; also when the state was
\* loaded from the store, where no bot_message is read
C34_ReplyNeverEmpty ==
    \A c \in Calls : pc[c] = "done" =>
        LET state == p_state[c]
        IN  /\ state.bot_message # NoneList
            /\ Len(state.bot_message) >= 1
            /\ \A i \in 1..Len(state.bot_message) : DOMAIN state.bot_message[i] = {"text"}
            /\ IF state.complete
               THEN \/ state.bot_message =
                          Segments(intents[state.intent.id].speech_response)
                    \/ state.bot_message = Unavailable
               ELSE state.bot_message =
                        PromptOf(intents[state.intent.id], state.missing_parameters[1])

\* C34 witness: a state loaded from the store without bot_message ended its turn
\* complete with the two segments of the speech_response of weather
C34_Witness ==
    \E c \in Calls :
        /\ pc[c] = "done"
        /\ p_loaded[c].bot_message = NoneList
        /\ "init_state" \notin Elems(p_steps[c])
        /\ p_state[c].complete
        /\ p_state[c].bot_message =
               <<[text |-> <<"S", "u", "n">>], [text |-> <<"W", "i", "n", "d">>]>>

\* the call c is the turn after one whose API call failed: it has loaded the
\* latest document of its thread, and that document carries the fixed segment
AfterFailedApi(c) ==
    /\ pc[c] \in {"nlu", "api", "render", "save"}
    /\ store # <<>>
    /\ store[Len(store)].thread_id = p_message[c].thread_id
    /\ store[Len(store)].bot_message = Unavailable

\* C35: a turn whose API call failed is persisted with complete = true, and the
\* next turn of the thread starts from the reset state, with no slot value and no
\* active intent; the slot values it ends with, and calls the API with when it
\* does, are those of its own message and NLU result, not the ones collected
\* before
C35_FailedApiCompletes ==
    /\ \A i \in 1..Len(store) :
           store[i].bot_message = Unavailable =>
               /\ store[i].complete
               /\ intents[store[i].intent.id].api_trigger
    /\ \A c \in Calls : AfterFailedApi(c) =>
           /\ p_loaded[c].complete
           /\ pc[c] = "nlu" =>
                  /\ p_state[c].extracted_parameters = EmptyDict
                  /\ p_state[c].intent = None
                  /\ ~TruthyStr(get_active_intent_id(p_state[c]))
                  /\ ~p_state[c].complete
           /\ pc[c] # "nlu" =>
                  \A k \in DOMAIN p_state[c].extracted_parameters :
                      p_state[c].extracted_parameters[k] \in TurnValues(c)

\* C35 witness: the API call for place = Boston failed and the turn was saved
\* complete; the next turn is at its API call with place = Denver
C35_Witness ==
    \E c \in Calls :
        /\ AfterFailedApi(c)
        /\ pc[c] = "api"
        /\ store[Len(store)].extracted_parameters = (place :> Boston)
        /\ p_state[c].extracted_parameters = (place :> Denver)

\* the log entry a is of an event that comes before the event of b in the payload
Earlier(a, b) == a.i < b.i \/ (a.i = b.i /\ a.j < b.j)

\* the place of an operation in the handling of one event
Rank(op) == CASE op = "process" -> 0 [] op = "returned" -> 1 [] op = "sent" -> 2
              [] op = "raised" -> 3

\* the events of the payload that come before the place (i, j) and lead to a call
HandledBefore(i, j) ==
    {<<m, n>> \in (1..Len(fb.data)) \X (1..3) :
        /\ n <= Len(fb.data[m].messaging)
        /\ m < i \/ (m = i /\ n < j)
        /\ Handled(fb.data[m].messaging[n])}

\* the number of process calls that had returned a State up to the entry a
ReturnedUpTo(a) == Cardinality({r \in 1..a : fb.log[r].op = "returned"})

\* C36: process_webhook_event handles the events of a payload in payload order:
\* an event is passed to process only when every event before it that leads to a
\* call has been passed to process, process has returned for it, and every
\* segment of its bot_message has been sent, in bot_message order; after a
\* failure of process or of a send nothing more is processed or sent
C36_PayloadOrder ==
    LET L == fb.log
    IN  /\ \A a, b \in 1..Len(L) : a < b =>
               \/ Earlier(L[a], L[b])
               \/ /\ L[a].i = L[b].i /\ L[a].j = L[b].j
                  /\ \/ Rank(L[a].op) < Rank(L[b].op)
                     \/ L[a].op = "sent" /\ L[b].op = "sent" /\ L[a].k < L[b].k
        /\ \A b \in 1..Len(L) : L[b].op = "process" =>
               /\ Handled(fb.data[L[b].i].messaging[L[b].j])
               /\ \A e \in HandledBefore(L[b].i, L[b].j) :
                      \E r \in 1..(b - 1) :
                          /\ L[r].op = "returned" /\ L[r].i = e[1] /\ L[r].j = e[2]
                          /\ L[r - 1].op = "process" /\ L[r - 1].i = e[1] /\ L[r - 1].j = e[2]
                          /\ r + L[r].k < b
                          /\ L[r].k = Len(store[ReturnedUpTo(r)].bot_message)
                          /\ \A k \in 1..L[r].k :
                                 /\ L[r + k].op = "sent" /\ L[r + k].k = k
                                 /\ L[r + k].segment = store[ReturnedUpTo(r)].bot_message[k]
        /\ \A a \in 1..(Len(L) - 1) : L[a].op # "raised"
        /\ fb.pc = "raised" <=> (L # <<>> /\ L[Len(L)].op = "raised")

\* C36 witness: the three events of a payload with two entries were processed,
\* the reply of one of them sent in two segments, and process_webhook_event has
\* returned
C36_Witness ==
    /\ fb.pc = "returned"
    /\ Len(fb.data) = 2
    /\ Len(store) = 3
    /\ Cardinality({a \in 1..Len(fb.log) : fb.log[a].op = "process"}) = 3
    /\ \E a \in 1..Len(fb.log) : fb.log[a].op = "sent" /\ fb.log[a].k = 2

\* C36 second witness: a send failed for the first event of a payload and the
\* events after it were not processed
C36_WitnessFailed ==
    /\ fb.pc = "raised"
    /\ Len(fb.data) = 2
    /\ fb.i = 1 /\ fb.j = 1
    /\ fb.log[Len(fb.log)].k >= 1
    /\ Len(store) = 1

====
